---- MODULE Spec2Model ----
(***************************************************************************)
(* A model of the order synchronisation engine of auto-teste:              *)
(*   app/database.py          the SQLite store (orders, sync_state)        *)
(*   app/services.py          the normalizer, the month chunking, the      *)
(*                            sync orchestrator and the reprocessor        *)
(*   app/connectors/yampi.py  the HTTP client (retry, auth fallback)       *)
(*                                                                         *)
(* Text values (Python str, SQLite TEXT) are sequences of naturals, so     *)
(* that the lexicographic comparisons the code relies on ("a" > "b" in     *)
(* Python, >= / <= on TEXT columns in SQLite) are computed, not assumed.   *)
(* A date text "YYYY-MM-DD" is the sequence <<YYYY, MM, DD>> of its three  *)
(* zero-padded fields; a timestamp adds a fourth element for the time.     *)
(***************************************************************************)
EXTENDS Integers, Sequences, FiniteSets, TLC

(***************************************************************************)
(* Bounds of the model.                                                    *)
(***************************************************************************)
\* order identifiers served by the API are 1..NumOrders
NumOrders == 2
\* update stamps are the text "10" and the single characters "2".."MaxStamp"
MaxStamp == 2
\* number of sync / reprocess runs in one behaviour (also the wall clock)
MaxRuns == 2
\* longest batch handed to upsert_orders in a direct call
MaxBatch == 2

(***************************************************************************)
(* Program constants.                                                      *)
(***************************************************************************)
\* number of "?" placeholders bound by the INSERT of upsert_orders
NumColumns == 16
\* YampiClient(max_retries=4)
MaxRetries == 4

(***************************************************************************)
(* Python / SQLite values.                                                 *)
(***************************************************************************)
\* Python None and SQL NULL: a sequence that is no text
None == << -1 >>

\* the empty str ""
EmptyText == << >>

\* bool(x) for an optional text: None and "" are falsy
Truthy(x) == x # None /\ x # EmptyText

\* a < b for two str / TEXT values: lexicographic, a proper prefix is smaller
RECURSIVE TextLT(_, _)
TextLT(a, b) ==
    IF b = << >> THEN FALSE
    ELSE IF a = << >> THEN TRUE
    ELSE IF Head(a) # Head(b) THEN Head(a) < Head(b)
    ELSE TextLT(Tail(a), Tail(b))

TextLE(a, b) == a = b \/ TextLT(a, b)

TextGT(a, b) == TextLT(b, a)

\* str(n) of a small integer
ToStr(n) == << n >>

\* (x or "") then str(): None and "" both give ""
OrEmpty(x) == IF Truthy(x) THEN x ELSE EmptyText

Clients == {"c1", "c2"}

OrderIds == 1 .. NumOrders

\* the update stamps: "10" < "2" < "3" < ... as text
Stamps == {<< 1, 0 >>} \cup {<< d >> : d \in 2 .. MaxStamp}

(***************************************************************************)
(* The calendar (datetime.date).                                           *)
(***************************************************************************)
IsLeap(y) == (y % 4 = 0 /\ y % 100 # 0) \/ y % 400 = 0

DaysInMonth(y, m) ==
    IF m = 2 THEN (IF IsLeap(y) THEN 29 ELSE 28)
    ELSE IF m \in {4, 6, 9, 11} THEN 30 ELSE 31

\* datetime.strptime(..., "%Y-%m-%d") accepts exactly the calendar's dates
ValidDate(d) ==
    /\ Len(d) = 3
    /\ d[2] \in 1 .. 12
    /\ d[3] \in 1 .. DaysInMonth(d[1], d[2])

\* d + timedelta(days=1)
NextDay(d) ==
    IF d[3] < DaysInMonth(d[1], d[2]) THEN << d[1], d[2], d[3] + 1 >>
    ELSE IF d[2] < 12 THEN << d[1], d[2] + 1, 1 >>
    ELSE << d[1] + 1, 1, 1 >>

\* d - timedelta(days=1)
PrevDay(d) ==
    IF d[3] > 1 THEN << d[1], d[2], d[3] - 1 >>
    ELSE IF d[2] > 1 THEN << d[1], d[2] - 1, DaysInMonth(d[1], d[2] - 1) >>
    ELSE << d[1] - 1, 12, 31 >>

\* date comparison a <= b
DateLE(a, b) ==
    \/ a[1] < b[1]
    \/ a[1] = b[1] /\ a[2] < b[2]
    \/ a[1] = b[1] /\ a[2] = b[2] /\ a[3] <= b[3]

DateMin(a, b) == IF DateLE(a, b) THEN a ELSE b

(***************************************************************************)
(* services._iter_month_ranges                                             *)
(***************************************************************************)
\* next_month: the first day of the month after `first`
NextMonthFirst(first) ==
    IF first[2] = 12 THEN << first[1] + 1, 1, 1 >>
    ELSE << first[1], first[2] + 1, 1 >>

\* a month_end that forgets to clip at `end`
MonthEnd_unclipped(current, end) ==
    PrevDay(NextMonthFirst(<< current[1], current[2], 1 >>))

\* month_end = min(end, next_month - timedelta(days=1))
MonthEnd(current, end) ==
    DateMin(end, PrevDay(NextMonthFirst(<< current[1], current[2], 1 >>)))

\* the while loop, from `current`
RECURSIVE IterMonthLoop(_, _)
IterMonthLoop(current, end) ==
    IF ~DateLE(current, end) THEN << >>
    ELSE << << current, MonthEnd(current, end) >> >>
           \o IterMonthLoop(NextDay(MonthEnd(current, end)), end)

\* _iter_month_ranges(start_date, end_date) for two parseable dates
iter_month_ranges(start_date, end_date) == IterMonthLoop(start_date, end_date)

(***************************************************************************)
(* database.py: the yampi_orders and sync_state tables.                    *)
(* A row of yampi_orders is the tuple of its 16 columns, in the order of   *)
(* the INSERT's column list:                                               *)
(*   1 client_id  2 order_id  3 status  4 status_name  5 total             *)
(*   6 created_at  7 created_date  8 updated_at  9..12 value_products,     *)
(*   value_shipment, value_discount, value_tax  13 customer_name           *)
(*   14 customer_email  15 raw_json  16 extracted_at                       *)
(* The table is the set of its rows.                                       *)
(***************************************************************************)
\* PRIMARY KEY (client_id, order_id)
RowKey(row) == << row[1], row[2] >>

\* a plain INSERT OR IGNORE: the stored row wins
UpsertRow_keep_old(tbl, row) ==
    IF \E r \in tbl : RowKey(r) = RowKey(row) THEN tbl ELSE tbl \cup {row}

\* INSERT ... ON CONFLICT(client_id, order_id) DO UPDATE SET <every other column>
UpsertRow(tbl, row) ==
    {r \in tbl : RowKey(r) # RowKey(row)} \cup {row}

\* a persist step that drops the rows without an error
upsert_orders_drop(tbl, rows) == [raised |-> FALSE, tbl |-> tbl]

\* upsert_orders: executemany binds each tuple to the 16 placeholders in turn;
\* a tuple of another length raises sqlite3.ProgrammingError at that tuple
RECURSIVE upsert_orders(_, _)
upsert_orders(tbl, rows) ==
    IF rows = << >> THEN [raised |-> FALSE, tbl |-> tbl]
    ELSE IF Len(Head(rows)) # NumColumns THEN [raised |-> TRUE, tbl |-> tbl]
    ELSE upsert_orders(UpsertRow(tbl, Head(rows)), Tail(rows))

\* a DELETE without the client_id condition
DeletedByPeriod_any_client(tbl, client_id, start_date, end_date) ==
    {r \in tbl : /\ TextLE(start_date, r[7])
                 /\ TextLE(r[7], end_date)}

\* a DELETE whose upper bound is exclusive
DeletedByPeriod_end_exclusive(tbl, client_id, start_date, end_date) ==
    {r \in tbl : /\ r[1] = client_id
                 /\ TextLE(start_date, r[7])
                 /\ TextLT(r[7], end_date)}

\* the rows DELETE ... WHERE client_id = ? AND created_date >= ? AND created_date <= ? removes
DeletedByPeriod(tbl, client_id, start_date, end_date) ==
    {r \in tbl : /\ r[1] = client_id
                 /\ TextLE(start_date, r[7])
                 /\ TextLE(r[7], end_date)}

\* a delete whose effect is undone when the caller fails afterwards
delete_orders_by_period_rolled_back(tbl, client_id, start_date, end_date) ==
    [tbl |-> tbl,
     rowcount |-> Cardinality(DeletedByPeriod(tbl, client_id, start_date, end_date))]

\* delete_orders_by_period: the table afterwards and cur.rowcount
delete_orders_by_period(tbl, client_id, start_date, end_date) ==
    [tbl |-> tbl \ DeletedByPeriod(tbl, client_id, start_date, end_date),
     rowcount |-> Cardinality(DeletedByPeriod(tbl, client_id, start_date, end_date))]

\* sync_state holds, per client, the row of source "yampi_orders"; NoRow: no such row
NoRow == [cursor |-> None, updated_at |-> -1]

\* a set_cursor that stores NULL
set_cursor_null(ss, client_id, cursor, updated_at) ==
    [ss EXCEPT ![client_id] = [cursor |-> None, updated_at |-> updated_at]]

\* a get_cursor that ignores the stored row
get_cursor_forget(ss, client_id) == None

\* get_cursor: row["cursor"] if row else None
get_cursor(ss, client_id) == ss[client_id].cursor

\* set_cursor: INSERT ... ON CONFLICT(client_id, source) DO UPDATE SET cursor, updated_at
set_cursor(ss, client_id, cursor, updated_at) ==
    [ss EXCEPT ![client_id] = [cursor |-> cursor, updated_at |-> updated_at]]

(***************************************************************************)
(* services.py: the normalizer.                                            *)
(* A raw API record is a record of its keys, such as [id, status,          *)
(* updated_at, created_at]; a key the API left out is not in its DOMAIN, a *)
(* text field sent as null holds None, a number field sent as null holds   *)
(* NullNumber.  created_at is the text "YYYY-MM-DD hh..." :                *)
(* <<YYYY, MM, DD, hh>>.  An element of the list that is no JSON object is *)
(* a value of the JSON model below, tagged with its kind.                  *)
(***************************************************************************)
\* None in a field that holds a number
NullNumber == -1

\* the text "None"
NoneText == << 33, 60, 59, 50 >>

\* str(v) for an integer or None
PyStr(v) == IF v = NullNumber THEN NoneText ELSE ToStr(v)

\* isinstance(order, dict): only a dict has the method get
IsObject(order) == "kind" \notin DOMAIN order

\* dct.get(key) for a text field
Get(dct, key) == IF key \in DOMAIN dct THEN dct[key] ELSE None

\* _pick(dct, *keys): the value of the first key present with a value that is
\* not None, else None; null is None as the fields looked up hold it
RECURSIVE Pick(_, _, _)
Pick(dct, keys, null) ==
    IF keys = << >> THEN null
    ELSE IF Head(keys) \in DOMAIN dct /\ dct[Head(keys)] # null THEN dct[Head(keys)]
    ELSE Pick(dct, Tail(keys), null)

\* line 146: the keys of the identifier
IdKeys == << "id", "order_id", "number" >>

\* line 147
UpdatedAtKeys == << "updated_at", "date_updated" >>

\* line 148
CreatedAtKeys == << "created_at", "date_created" >>

\* _extract_date: "" for None, else the first 10 characters (the date part)
extract_date(value) ==
    IF value = None THEN EmptyText
    ELSE IF Len(value) <= 3 THEN value
    ELSE SubSeq(value, 1, 3)

\* _extract_status_name for a missing or plain-text status
extract_status_name(status) == IF status = None THEN EmptyText ELSE status

\* the tuple appended to rows for one record (18 fields: the 16 columns of the
\* table plus payment_date and cancelled_date after value_tax)
NormalizeRow(client_id, order, extracted_at) ==
    << client_id,
       PyStr(Pick(order, IdKeys, NullNumber)),
       OrEmpty(Get(order, "status")),
       extract_status_name(Get(order, "status")),
       EmptyText,
       OrEmpty(Pick(order, CreatedAtKeys, None)),
       extract_date(Pick(order, CreatedAtKeys, None)),
       OrEmpty(Pick(order, UpdatedAtKeys, None)),
       0, 0, 0, 0,
       EmptyText,
       EmptyText,
       EmptyText,
       EmptyText,
       order,
       extracted_at >>

\* max_updated after one more record
NextMaxUpdated(max_updated, updated_at) ==
    IF Truthy(updated_at) /\ (max_updated = None \/ TextGT(updated_at, max_updated))
    THEN updated_at
    ELSE max_updated

\* lines 143-183: the loop over the records; order.get of line 144 raises
\* AttributeError for an element that is not a dict, and the call ends there
RECURSIVE NormalizeLoop(_, _, _, _, _)
NormalizeLoop(client_id, raw_orders, extracted_at, rows, max_updated) ==
    IF raw_orders = << >>
    THEN [raised |-> FALSE, rows |-> rows, max_updated |-> max_updated]
    ELSE IF ~IsObject(Head(raw_orders))
    THEN [raised |-> TRUE, rows |-> rows, max_updated |-> max_updated]
    ELSE NormalizeLoop(client_id, Tail(raw_orders), extracted_at,
                       Append(rows, NormalizeRow(client_id, Head(raw_orders), extracted_at)),
                       NextMaxUpdated(max_updated,
                                      Pick(Head(raw_orders), UpdatedAtKeys, None)))

\* _normalize_orders(client_id, raw_orders) at wall-clock time extracted_at:
\* (rows, max_updated), or raised
normalize_orders(client_id, raw_orders, extracted_at) ==
    NormalizeLoop(client_id, raw_orders, extracted_at, << >>, None)

\* a row as the 16-column table holds it: the values of the table's columns for
\* one record (written by a release whose tuples matched the INSERT)
StoredRow(client_id, order, extracted_at) ==
    << client_id,
       ToStr(order.id),
       OrEmpty(order.status),
       extract_status_name(order.status),
       EmptyText,
       OrEmpty(order.created_at),
       extract_date(order.created_at),
       OrEmpty(order.updated_at),
       0, 0, 0, 0,
       EmptyText,
       EmptyText,
       order,
       extracted_at >>

(***************************************************************************)
(* The data the bounded model draws from.                                  *)
(***************************************************************************)
\* each order was created on a fixed day: order 1 on 2024-01-31, order 2 on
\* 2024-02-01, any further order on 2024-03-01
CreatedAtOf(id) ==
    IF id = 1 THEN << 2024, 1, 31, 9 >>
    ELSE IF id = 2 THEN << 2024, 2, 1, 9 >>
    ELSE << 2024, 3, 1, 9 >>

\* the records the API may hold: one per order id, any update stamp or none
RawOrders ==
    {[id |-> i, status |-> << 2 >>, updated_at |-> u, created_at |-> CreatedAtOf(i)] :
        i \in OrderIds, u \in Stamps \cup {None}}

\* the dates a caller passes as start_date / end_date ("" when not given)
WindowDates == {<< 2024, 1, 31 >>, << 2024, 2, 1 >>}

\* rows a direct caller of upsert_orders binds: well-formed 16-column tuples
RowPool ==
    {StoredRow("c1", [id |-> i, status |-> st, updated_at |-> << 1, 0 >>,
                      created_at |-> CreatedAtOf(i)], 0) :
        i \in OrderIds, st \in {<< 1 >>, << 2 >>}}
    \cup {StoredRow("c2", [id |-> 1, status |-> << 1 >>, updated_at |-> << 1, 0 >>,
                           created_at |-> CreatedAtOf(1)], 0)}

RECURSIVE SeqsUpTo(_, _)
SeqsUpTo(S, n) ==
    IF n = 0 THEN {<< >>}
    ELSE SeqsUpTo(S, n - 1) \cup
         {Append(q, x) : q \in {t \in SeqsUpTo(S, n - 1) : Len(t) = n - 1}, x \in S}

Batches == SeqsUpTo(RowPool, MaxBatch) \ {<< >>}

\* the days the month chunking is exercised on: two years, every month,
\* the first days, the middle and the last days of each month
MonthDates ==
    {d \in {<< y, m, dd >> : y \in {2023, 2024}, m \in 1 .. 12,
                             dd \in {1, 2, 15, 27, 28, 29, 30, 31}} : ValidDate(d)}

(***************************************************************************)
(* connectors/yampi.py: fetch_orders, and the API behind it.               *)
(***************************************************************************)
\* client.page_size, the "limit" of every request
PageSize == 1

\* sync_yampi_orders(max_pages=1000); no caller passes another value
MaxPages == 1000

\* parameters that carry the since filter whenever a since value is given
FetchParams_since_always(page, page_size, scroll_id, updated_since, start_date, end_date) ==
    [page |-> page,
     limit |-> page_size,
     scroll_id |-> IF Truthy(scroll_id) THEN scroll_id ELSE None,
     updated_at_min |-> IF Truthy(updated_since) THEN updated_since ELSE None,
     date |->
        IF Truthy(end_date)
        THEN << (IF Truthy(start_date) THEN start_date ELSE end_date), end_date >>
        ELSE IF Truthy(start_date) THEN << start_date, start_date >>
        ELSE None]

\* parameters that carry a scroll cursor of their own on every request
FetchParams_own_scroll(page, page_size, scroll_id, updated_since, start_date, end_date) ==
    [page |-> page,
     limit |-> page_size,
     scroll_id |-> << 7 >>,
     updated_at_min |->
        IF Truthy(updated_since) /\ ~Truthy(start_date) /\ ~Truthy(end_date)
        THEN updated_since ELSE None,
     date |->
        IF Truthy(end_date)
        THEN << (IF Truthy(start_date) THEN start_date ELSE end_date), end_date >>
        ELSE IF Truthy(start_date) THEN << start_date, start_date >>
        ELSE None]

\* the query parameters fetch_orders sends (the fixed include and status_id
\* parameters are left out); None: the parameter is not sent
FetchParams(page, page_size, scroll_id, updated_since, start_date, end_date) ==
    [page |-> page,
     limit |-> page_size,
     scroll_id |-> IF Truthy(scroll_id) THEN scroll_id ELSE None,
     updated_at_min |->
        IF Truthy(updated_since) /\ ~Truthy(start_date) /\ ~Truthy(end_date)
        THEN updated_since ELSE None,
     date |->
        IF Truthy(end_date)
        THEN << (IF Truthy(start_date) THEN start_date ELSE end_date), end_date >>
        ELSE IF Truthy(start_date) THEN << start_date, start_date >>
        ELSE None]

\* the records of `data` the API selects for a request: the created_at range
\* filter and the updated_at_min filter, both inclusive
ApiSelect(data, params) ==
    {o \in data :
        /\ params.date # None =>
               /\ TextLE(params.date[1], extract_date(o.created_at))
               /\ TextLE(extract_date(o.created_at), params.date[2])
        /\ params.updated_at_min # None =>
               /\ o.updated_at # None
               /\ TextLE(params.updated_at_min, o.updated_at)}

\* the records of S in ascending order of id
RECURSIVE SortById(_)
SortById(S) ==
    IF S = {} THEN << >>
    ELSE LET first == CHOOSE o \in S : \A p \in S : o.id <= p.id
         IN  << first >> \o SortById(S \ {first})

\* the API's answer to a request, as fetch_orders returns it:
\* (records of the page, next scroll id, total pages)
ApiPage(data, params, next_scroll_id) ==
    LET all == SortById(ApiSelect(data, params))
        lo == (params.page - 1) * params.limit + 1
        hi == IF params.page * params.limit < Len(all)
              THEN params.page * params.limit ELSE Len(all)
        pages == (Len(all) + params.limit - 1) \div params.limit
    IN  [raw_orders |-> IF lo > hi THEN << >> ELSE SubSeq(all, lo, hi),
         next_scroll_id |-> next_scroll_id,
         total_pages |-> IF pages < 1 THEN 1 ELSE pages]

\* the scroll ids a response may carry
ScrollIds == {None, << 7 >>}

\* by how much the total_pages of a response may exceed the pages the API
\* has for the request (paging metadata that is stale or counts more than
\* the filter selects)
PageCountSkew == {0, 1}

\* the answer with the page count the API reports
Reported(resp, skew) == [resp EXCEPT !.total_pages = @ + skew]

(***************************************************************************)
(* connectors/yampi.py: the body of a response and what fetch_orders makes *)
(* of it.  A JSON value is a record tagged with its kind; a key an object  *)
(* does not have holds Absent.  A character of a text is a natural, the    *)
(* digits "0".."9" are 0 .. 9, every other character is 10 or more.        *)
(***************************************************************************)
Absent == [kind |-> "absent"]

\* a body that is not JSON: response.json() raises on it
NotJson == [kind |-> "invalid"]

JNull == [kind |-> "null"]

JNum(n) == [kind |-> "number", value |-> n]

\* a JSON string; mentions: the key names that occur in it as substrings
JStr(text, mentions) == [kind |-> "string", value |-> text, mentions |-> mentions]

JList(items) == [kind |-> "list", items |-> items]

\* the object under meta.pagination
JPagination(total_pages) == [kind |-> "object", total_pages |-> total_pages]

\* the object under meta
JMeta(pagination, next_scroll_id) ==
    [kind |-> "object", pagination |-> pagination, next_scroll_id |-> next_scroll_id]

\* the top-level object
JPayload(meta, data, orders, results, next_scroll_id, scroll_id) ==
    [kind |-> "object", meta |-> meta, data |-> data, orders |-> orders,
     results |-> results, next_scroll_id |-> next_scroll_id, scroll_id |-> scroll_id]

\* isinstance(v, list)
IsList(v) == v.kind = "list"

\* isinstance(v, dict)
IsDict(v) == v.kind = "object"

\* bool(v) for the value dict.get returns (None for a key that is absent)
JTruthy(v) ==
    CASE v.kind = "number" -> v.value # 0
      [] v.kind = "string" -> v.value # << >>
      [] v.kind = "list"   -> v.items # << >>
      [] v.kind = "object" -> TRUE
      [] OTHER             -> FALSE

\* the Python value of a JSON scalar: None for null or an absent key
PyValue(v) == IF v.kind = "string" THEN v.value ELSE None

\* a text made of decimal digits only
IsDigits(text) == text # << >> /\ \A i \in 1 .. Len(text) : text[i] \in 0 .. 9

RECURSIVE ParseInt(_)
ParseInt(text) ==
    IF Len(text) = 1 THEN text[1]
    ELSE 10 * ParseInt(SubSeq(text, 1, Len(text) - 1)) + text[Len(text)]

\* int(v) for a truthy v: ValueError for a text that is not a number,
\* TypeError for a list
PyInt(v) ==
    CASE v.kind = "number" -> [raised |-> FALSE, error |-> "none", value |-> v.value]
      [] v.kind = "string" /\ IsDigits(v.value) ->
            [raised |-> FALSE, error |-> "none", value |-> ParseInt(v.value)]
      [] v.kind = "string" /\ ~IsDigits(v.value) ->
            [raised |-> TRUE, error |-> "ValueError", value |-> 1]
      [] OTHER -> [raised |-> TRUE, error |-> "TypeError", value |-> 1]

\* what fetch_orders returns, or the exception that leaves it
Returned(raw_orders, next_scroll_id, total_pages) ==
    [raised |-> FALSE, error |-> "none", raw_orders |-> raw_orders,
     next_scroll_id |-> next_scroll_id, total_pages |-> total_pages]

Raised(error) ==
    [raised |-> TRUE, error |-> error, raw_orders |-> << >>,
     next_scroll_id |-> None, total_pages |-> 1]

\* line 139: meta = payload.get("meta", {}) if it is a dict, else {}
PayloadMeta(payload) ==
    IF IsDict(payload.meta) THEN payload.meta ELSE JMeta(Absent, Absent)

\* line 140: pagination = meta.get("pagination", {})
MetaPagination(meta) ==
    IF meta.pagination = Absent THEN JPagination(Absent) ELSE meta.pagination

\* lines 135, 141-142: total_pages = int(pagination.get("total_pages") or 1)
TotalPages(pagination) ==
    IF IsDict(pagination)
    THEN IF JTruthy(pagination.total_pages)
         THEN PyInt(pagination.total_pages)
         ELSE [raised |-> FALSE, error |-> "none", value |-> 1]
    ELSE [raised |-> FALSE, error |-> "none", value |-> 1]

\* lines 143-147: meta.get("next_scroll_id") or payload.get("next_scroll_id")
\* or payload.get("scroll_id")
NextScrollId(meta, payload) ==
    IF JTruthy(meta.next_scroll_id) THEN PyValue(meta.next_scroll_id)
    ELSE IF JTruthy(payload.next_scroll_id) THEN PyValue(payload.next_scroll_id)
    ELSE PyValue(payload.scroll_id)

\* a key order that looks at "results" first
RecordKeys_results_first == << "results", "orders", "data" >>

\* lines 148-153: the keys looked at for the record list, in order
RecordKeys == << "data", "orders", "results" >>

\* lines 148-154 for a dict: the first key present with a list wins, else []
RECURSIVE FirstList(_, _)
FirstList(payload, keys) ==
    IF keys = << >> THEN << >>
    ELSE IF payload[Head(keys)] # Absent /\ IsList(payload[Head(keys)])
         THEN payload[Head(keys)].items
         ELSE FirstList(payload, Tail(keys))

\* lines 148-154 for a payload that is neither a list nor a dict:
\* `"data" in payload` is a substring test on a str and a TypeError on None
\* or a number; payload["data"] on a str is a TypeError
RECURSIVE ScalarLookup(_, _, _, _)
ScalarLookup(payload, keys, next_scroll_id, total_pages) ==
    IF payload.kind # "string" THEN Raised("TypeError")
    ELSE IF keys = << >> THEN Returned(<< >>, next_scroll_id, total_pages)
    ELSE IF Head(keys) \in payload.mentions THEN Raised("TypeError")
    ELSE ScalarLookup(payload, Tail(keys), next_scroll_id, total_pages)

\* lines 132-154: fetch_orders after _request returned a response with `body`
FetchResolve(body) ==
    IF body = NotJson THEN Raised("JSONDecodeError")
    ELSE IF IsList(body) THEN Returned(body.items, None, 1)
    ELSE IF IsDict(body)
    THEN LET meta == PayloadMeta(body)
             tp == TotalPages(MetaPagination(meta))
         IN  IF tp.raised THEN Raised(tp.error)
             ELSE Returned(FirstList(body, RecordKeys),
                           NextScrollId(meta, body), tp.value)
    ELSE ScalarLookup(body, RecordKeys, None, 1)

\* the response bodies the bounded model draws from
ListA == << [id |-> 1, status |-> << 2 >>, updated_at |-> << 2 >>,
             created_at |-> CreatedAtOf(1)] >>

ListB == << [id |-> 2, status |-> << 2 >>, updated_at |-> None,
             created_at |-> CreatedAtOf(2)] >>

ListC == ListA \o ListB

\* a text that is not a number ("ab")
Letters == << 10, 11 >>

\* objects with every combination of data, orders and results
ShapeBodies ==
    {JPayload(Absent, d, o, r, Absent, Absent) :
        d \in {Absent, JNull, JList(<< >>), JList(ListA)},
        o \in {Absent, JStr(Letters, {}), JList(ListB)},
        r \in {Absent, JList(ListC)}}

\* the values found under meta.pagination.total_pages
TotalPagesValues ==
    {Absent, JNull, JNum(0), JNum(2), JStr(<< 3 >>, {}), JStr(<< 1, 2 >>, {}),
     JStr(<< >>, {}), JStr(Letters, {}), JList(<< >>), JList(ListA)}

MetaValues ==
    {Absent, JNull, JMeta(Absent, Absent), JMeta(JNull, Absent),
     JMeta(JStr(Letters, {}), Absent)}
    \cup {JMeta(JPagination(t), Absent) : t \in TotalPagesValues}

\* objects with a record list and every kind of paging metadata, and one
\* without any record list
PagingBodies ==
    {JPayload(m, JList(ListA), Absent, Absent, Absent, Absent) : m \in MetaValues}
    \cup {JPayload(JMeta(JPagination(JStr(Letters, {})), Absent),
                   Absent, Absent, Absent, Absent, Absent)}

\* objects with a scroll id in any of its three places
ScrollBodies ==
    {JPayload(JMeta(Absent, a), JList(ListA), Absent, Absent, b, c) :
        a \in {Absent, JStr(<< 7 >>, {})},
        b \in {Absent, JNull, JStr(<< 8 >>, {})},
        c \in {Absent, JStr(<< >>, {}), JStr(<< 9 >>, {})}}

\* bodies that are neither a list nor an object
ScalarBodies ==
    {NotJson, JNull, JNum(0), JNum(5), JStr(Letters, {}),
     JStr(Letters, {"data"}), JStr(Letters, {"results"})}

ListBodies == {JList(<< >>), JList(ListA), JList(ListC)}

Bodies == ShapeBodies \cup PagingBodies \cup ScrollBodies \cup ScalarBodies \cup ListBodies

(***************************************************************************)
(* State.                                                                  *)
(***************************************************************************)
VARIABLES
    orders,      \* the yampi_orders table
    sync_state,  \* the sync_state table: client -> row of source "yampi_orders"
    upstream,    \* the records the remote API holds
    run,         \* the sync_yampi_orders / reprocess_orders_for_period call in progress
    hist,        \* what the call in progress has observed so far
    clock,       \* wall clock: the number of calls started
    db_call,     \* the last direct call of upsert_orders
    mr,          \* the last call of _iter_month_ranges
    rq,          \* the YampiClient._request call in progress
    tc,          \* the YampiClient.test_connection call in progress
    fo,          \* the YampiClient.fetch_orders call in progress
    clients,     \* the clients table: client id -> its row
    nz,          \* the last call of _normalize_orders
    sq,          \* the last direct call of a query or delete of the store
    gui,         \* the batch task of the window in progress
    cli,         \* the sync-yampi command in progress
    win          \* the window: busy flag, controls, background threads, callbacks due

\* the state of the callers of the engine
rest == << clients, nz, sq, gui, cli, win >>

vars == << orders, sync_state, upstream, run, hist, clock, db_call, mr, rq, tc, fo, rest >>

NoResp == [raw_orders |-> << >>, next_scroll_id |-> None, total_pages |-> 1]

RunIdle ==
    [pc |-> "idle", op |-> "none", client_id |-> "c1",
     start_date |-> EmptyText, end_date |-> EmptyText,
     cursor |-> None, windows |-> << >>,
     window_start |-> EmptyText, window_end |-> EmptyText, window_cursor |-> None,
     rows_total |-> 0, max_seen |-> None, scroll_id |-> None,
     total_pages |-> 1, page |-> 1, resp |-> NoResp,
     total_rows |-> 0, max_seen_cursor |-> None, deleted |-> 0, error |-> "none"]

HistIdle ==
    [orders0 |-> {}, ss0 |-> [c \in Clients |-> NoRow], served |-> {},
     requests |-> {}, cursor_writes |-> 0, fetch_raised |-> FALSE,
     committed |-> {}, upserted |-> 0, windows |-> << >>]

DbIdle == [pc |-> "idle", before |-> {}, rows |-> << >>, raised |-> FALSE]

MrIdle == [pc |-> "idle", start_date |-> << 2024, 1, 1 >>, end_date |-> << 2024, 1, 1 >>,
           ranges |-> << >>]

NoCredentials == [token |-> FALSE, user_token |-> FALSE, user_secret_key |-> FALSE]

RqIdle ==
    [pc |-> "idle", cfg |-> NoCredentials, calls |-> 0, attempt |-> 0,
     sent |-> << >>, sleeps |-> << >>, failures |-> << >>,
     primary_status |-> 0, fallback_status |-> 0,
     outcome |-> "none", status |-> 0,
     url |-> "none", headers |-> << >>, error |-> [status |-> 0, url |-> "none"],
     prev_fallback_ok |-> FALSE]

TcIdle == [pc |-> "idle", ok |-> FALSE, message |-> "none"]

\* no row of the clients table for the id
NoClient == [company |-> None, alias |-> None, name |-> None]

NoClients == [c \in Clients |-> NoClient]

NzIdle ==
    [pc |-> "idle", client_id |-> "c1", raw_orders |-> << >>,
     result |-> [raised |-> FALSE, rows |-> << >>, max_updated |-> None]]

SqIdle ==
    [pc |-> "idle", client_id |-> "c1", start_date |-> EmptyText, end_date |-> EmptyText,
     before |-> {}, ss0 |-> [c \in Clients |-> NoRow], clients0 |-> NoClients,
     op |-> "none", rows |-> << >>, csv |-> << >>, count |-> 0]

GuiIdle ==
    [pc |-> "idle", op |-> "none", selection |-> << >>,
     month_start |-> EmptyText, month_end |-> EmptyText,
     attempted |-> << >>, returned |-> << >>,
     results |-> << >>, errors |-> << >>,
     totals_deleted |-> 0, totals_synced |-> 0, summary |-> "none"]

\* a date as typed on the command line: its three number fields and the
\* character between them; "": no fields
NoDateArg == [sep |-> "-", fields |-> << >>]

CliIdle ==
    [pc |-> "idle", client_id |-> "c1", cfg |-> NoCredentials,
     start_arg |-> NoDateArg, end_arg |-> NoDateArg,
     start_date |-> EmptyText, end_date |-> EmptyText,
     error |-> "none", requests |-> 0, synced |-> 0,
     orders0 |-> {}, clients0 |-> NoClients, ss0 |-> [c \in Clients |-> NoRow]]

\* gui.py 214-238: the buttons whose handler hands a task to _run_background
TaskButtons ==
    {"test", "sync", "export_monthly", "export_monthly_sheets", "reprocess",
     "export_orders", "export_skus", "update"}

\* gui.py 574-575: the two comboboxes
Combos == {"platform_combo", "company_combo"}

\* gui.py 558-578: every widget _set_busy configures
Controls ==
    TaskButtons \cup Combos \cup
    {"credentials", "start_date_entry", "end_date_entry", "order_number_entry",
     "current_month", "last_30_days", "choose_db", "choose_output",
     "select_all_check", "client_checkbuttons"}

\* gui.py 556, 574-575: the state _set_busy gives a widget
ControlState(c, busy) ==
    IF busy THEN "disabled" ELSE IF c \in Combos THEN "readonly" ELSE "normal"

\* the window after __init__: not busy, no thread started, no callback due
WinIdle ==
    [busy |-> FALSE, controls |-> [c \in Controls |-> ControlState(c, FALSE)],
     tasks |-> << >>, queue |-> << >>, completed |-> {}, clicks |-> 0]

FoIdle ==
    [pc |-> "idle", page |-> 1, scroll_id |-> None, updated_since |-> None,
     start_date |-> None, end_date |-> None,
     params |-> FetchParams(1, PageSize, None, None, None, None),
     body |-> JNull, result |-> Returned(<< >>, None, 1)]

(***************************************************************************)
(* SpecDb: direct calls of the store's functions.                          *)
(***************************************************************************)
InitDb ==
    /\ orders = {}
    /\ sync_state = [c \in Clients |-> NoRow]
    /\ upstream = {}
    /\ run = RunIdle
    /\ hist = HistIdle
    /\ clock = 0
    /\ db_call = DbIdle
    /\ mr = MrIdle
    /\ rq = RqIdle
    /\ tc = TcIdle
    /\ win = WinIdle
    /\ clients = NoClients
    /\ nz = NzIdle
    /\ sq = SqIdle
    /\ gui = GuiIdle
    /\ cli = CliIdle
    /\ fo = FoIdle

\* upsert_orders(conn, rows) for a batch of well-formed rows
UpsertCall ==
    \E rows \in Batches :
        /\ orders' = upsert_orders(orders, rows).tbl
        /\ db_call' = [pc |-> "upserted", before |-> orders, rows |-> rows,
                       raised |-> upsert_orders(orders, rows).raised]
        /\ UNCHANGED << sync_state, upstream, run, hist, clock, mr, rq, tc, fo, rest >>

NextDb == UpsertCall

SpecDb == InitDb /\ [][NextDb]_vars

\* the last tuple of a batch bound to a key
LastWrite(rows, key) ==
    rows[CHOOSE i \in 1 .. Len(rows) :
            /\ RowKey(rows[i]) = key
            /\ \A j \in (i + 1) .. Len(rows) : RowKey(rows[j]) # key]

\* C1: the store holds at most one row per (client id, order id); after an
\* upsert the row of every key of the batch is, in every column, the latest
\* tuple written for that key, every other row is as it was, and upserting
\* the same batch again leaves the store as it is.
C1_UpsertLastWriteWins ==
    /\ \A r1 \in orders : \A r2 \in orders : RowKey(r1) = RowKey(r2) => r1 = r2
    /\ db_call.pc = "upserted" =>
        /\ ~db_call.raised
        /\ \A i \in 1 .. Len(db_call.rows) :
              LastWrite(db_call.rows, RowKey(db_call.rows[i])) \in orders
        /\ \A r \in orders :
              \/ r \in db_call.before
              \/ \E i \in 1 .. Len(db_call.rows) : r = db_call.rows[i]
        /\ \A r \in db_call.before :
              (\A i \in 1 .. Len(db_call.rows) : RowKey(db_call.rows[i]) # RowKey(r))
                  => r \in orders
        /\ upsert_orders(orders, db_call.rows).tbl = orders

\* a key that was stored with other content has just been upserted again
C1_Witness ==
    /\ db_call.pc = "upserted"
    /\ \E r \in db_call.before : \E i \in 1 .. Len(db_call.rows) :
          /\ RowKey(r) = RowKey(db_call.rows[i])
          /\ r # db_call.rows[i]
          /\ r \notin orders
    /\ \E r1 \in orders : \E r2 \in orders : r1[1] # r2[1] /\ r1[2] = r2[2]

(***************************************************************************)
(* SpecNormalize: calls of _normalize_orders on the lists fetch_orders may *)
(* return: whatever list the response body holds under data, orders or     *)
(* results, or the body itself when it is a list.                          *)
(***************************************************************************)
\* the elements of such a list: objects with the identifier and the dates
\* under any of their keys, null or left out, and values that are no object
NormalizePool ==
    {[id |-> 1, status |-> << 2 >>, updated_at |-> << 2 >>, created_at |-> CreatedAtOf(1)],
     [id |-> 2, status |-> << 2 >>, updated_at |-> << 1, 0 >>,
      created_at |-> CreatedAtOf(2)],
     [id |-> NullNumber, order_id |-> 2, status |-> None, date_updated |-> << 2 >>],
     [order_id |-> NullNumber, number |-> 1, updated_at |-> None,
      date_created |-> CreatedAtOf(1)],
     [status |-> << 1 >>, updated_at |-> << 2 >>],
     [id |-> NullNumber, number |-> NullNumber, status |-> None],
     JNull, JNum(5), JStr(Letters, {}), JList(<< >>)}

InitNormalize ==
    /\ orders = {}
    /\ sync_state = [c \in Clients |-> NoRow]
    /\ upstream = {}
    /\ run = RunIdle
    /\ hist = HistIdle
    /\ clock = 0
    /\ db_call = DbIdle
    /\ mr = MrIdle
    /\ rq = RqIdle
    /\ tc = TcIdle
    /\ win = WinIdle
    /\ fo = FoIdle
    /\ clients = NoClients
    /\ sq = SqIdle
    /\ gui = GuiIdle
    /\ cli = CliIdle
    /\ \E c \in Clients : \E raw \in SeqsUpTo(NormalizePool, MaxBatch) :
          nz = [NzIdle EXCEPT !.pc = "input", !.client_id = c, !.raw_orders = raw]

\* _normalize_orders(client_id, raw_orders)
NormalizeCall ==
    /\ nz.pc = "input"
    /\ nz' = [nz EXCEPT !.pc = "returned",
                        !.result = normalize_orders(nz.client_id, nz.raw_orders, clock)]
    /\ UNCHANGED << orders, sync_state, upstream, run, hist, clock, db_call, mr, rq, tc, fo,
                    clients, sq, gui, cli, win >>

NextNormalize == NormalizeCall

SpecNormalize == InitNormalize /\ [][NextNormalize]_vars

\* C22: for every list of raw records, whatever the shape of its elements
\* (fields missing or null, an element that is not an object),
\* _normalize_orders does not raise and returns one row per record.
C22_NormalizerTotal ==
    nz.pc = "returned" =>
        /\ ~nz.result.raised
        /\ Len(nz.result.rows) = Len(nz.raw_orders)

\* the record has an identifier under one of id, order_id, number
HasIdent(o) == \E k \in {"id", "order_id", "number"} : k \in DOMAIN o /\ o[k] # NullNumber

\* the first non-null of id, order_id, number
Ident(o) ==
    IF "id" \in DOMAIN o /\ o.id # NullNumber THEN o.id
    ELSE IF "order_id" \in DOMAIN o /\ o.order_id # NullNumber THEN o.order_id
    ELSE o.number

\* C23: the order id of a row is the text of the first non-null of id,
\* order_id, number of its record; records with different identifiers get
\* different (client, order id) keys; a record with none of the three gets
\* the empty text as its order id.
C23_OrderIdIsFirstIdentifier ==
    (nz.pc = "returned" /\ ~nz.result.raised) =>
        /\ Len(nz.result.rows) = Len(nz.raw_orders)
        /\ \A i \in 1 .. Len(nz.raw_orders) :
              IF HasIdent(nz.raw_orders[i])
              THEN nz.result.rows[i][2] = ToStr(Ident(nz.raw_orders[i]))
              ELSE nz.result.rows[i][2] = EmptyText
        /\ \A i \in 1 .. Len(nz.raw_orders) : \A j \in 1 .. Len(nz.raw_orders) :
              (/\ HasIdent(nz.raw_orders[i]) /\ HasIdent(nz.raw_orders[j])
               /\ Ident(nz.raw_orders[i]) # Ident(nz.raw_orders[j]))
                  => RowKey(nz.result.rows[i]) # RowKey(nz.result.rows[j])

(***************************************************************************)
(* SpecStore: direct calls of export_monthly_sheet_csv and of              *)
(* delete_orders_by_period on a database that holds orders.  Money is      *)
(* counted in cents: the REAL columns hold amounts with two decimals, on   *)
(* which ROUND(x, 2) changes nothing.                                      *)
(***************************************************************************)
\* substr(created_date, 1, 7) || '-01': the first day of the month of a
\* date text, "-01" for the empty text
MonthOf(created_date) ==
    SubSeq(created_date, 1, IF Len(created_date) < 2 THEN Len(created_date) ELSE 2)
        \o << 1 >>

\* lines 170-180: the WHERE clause: the client, and each bound that was given
InExportWindow(row, client_id, start_date, end_date) ==
    /\ row[1] = client_id
    /\ Truthy(start_date) => TextLE(start_date, row[7])
    /\ Truthy(end_date) => TextLE(row[7], end_date)

\* a sales figure that leaves the shipment out
SalesOf_products_only(row) == row[9]

\* line 187: COALESCE(value_products, 0) + COALESCE(value_shipment, 0)
SalesOf(row) == row[9] + row[10]

\* SUM(...) over the rows of a group
RECURSIVE SumSales(_)
SumSales(S) ==
    IF S = {} THEN 0
    ELSE LET r == CHOOSE x \in S : TRUE IN SalesOf(r) + SumSales(S \ {r})

\* SUM(COALESCE(column, 0)) over the rows of a group
RECURSIVE SumColumn(_, _)
SumColumn(S, col) ==
    IF S = {} THEN 0
    ELSE LET r == CHOOSE x \in S : TRUE IN r[col] + SumColumn(S \ {r}, col)

\* line 193: the key of the group of a row, after the LEFT JOIN of line 191
GroupKey(row, cl) == << MonthOf(row[7]), cl[row[1]].company, cl[row[1]].alias >>

\* line 194: ORDER BY data DESC
RECURSIVE OrderByDataDesc(_)
OrderByDataDesc(keys) ==
    IF keys = {} THEN << >>
    ELSE LET top == CHOOSE k \in keys : \A o \in keys : TextLE(o[1], k[1])
         IN  << top >> \o OrderByDataDesc(keys \ {top})

\* lines 183-189: the row selected for one group
MonthlyRow(group, key) ==
    [data |-> key[1], nome_empresa |-> key[2], alias |-> key[3],
     vendas_de_produto |-> SumSales(group),
     descontos_concedidos |-> SumColumn(group, 11),
     juros_de_venda |-> SumColumn(group, 12)]

\* fetch_monthly_for_export(conn, client_id, start_date, end_date)
fetch_monthly_for_export(tbl, cl, client_id, start_date, end_date) ==
    LET sel == {r \in tbl : InExportWindow(r, client_id, start_date, end_date)}
        keys == OrderByDataDesc({GroupKey(r, cl) : r \in sel})
    IN  [i \in 1 .. Len(keys) |->
            MonthlyRow({r \in sel : GroupKey(r, cl) = keys[i]}, keys[i])]

\* _format_date_br: "" for "", DD/MM/YYYY for a date, the text itself otherwise
format_date_br(text) ==
    IF text = EmptyText THEN EmptyText
    ELSE IF Len(text) = 3 /\ ValidDate(text) THEN << text[3], text[2], text[1] >>
    ELSE text

\* _format_money_br: "R$ " and the amount with "." between thousands and ","
\* before the two decimals: the currency mark, the units and the cents
format_money_br(value) == << "R$", value \div 100, value % 100 >>

\* lines 314-324: the line written for one row of the query
CsvLine(row) ==
    << format_date_br(row.data),
       OrEmpty(row.nome_empresa),
       OrEmpty(row.alias),
       format_money_br(row.vendas_de_produto),
       format_money_br(row.descontos_concedidos),
       format_money_br(row.juros_de_venda) >>

\* a stored order of a client with its created_at and its four amounts
MoneyRow(client_id, id, created_at, amounts) ==
    [StoredRow(client_id, [id |-> id, status |-> << 1 >>, updated_at |-> << 1, 0 >>,
                           created_at |-> created_at], 0)
        EXCEPT ![9] = amounts[1], ![10] = amounts[2], ![11] = amounts[3],
               ![12] = amounts[4]]

\* the amounts of an order: products, shipment, discount, tax
Amounts == {<< 10000, 1000, 500, 200 >>, << 250, 0, 0, 50 >>}

\* the created_at of the stored orders (None: the record had none)
StoreCreated ==
    {<< 2024, 2, 29, 9 >>, << 2024, 3, 15, 9 >>, << 2024, 3, 31, 9 >>, None}

\* the tables a call finds: at most one row per key
StoreTables ==
    {T \in SUBSET ({MoneyRow("c1", i, d, a) : i \in OrderIds, d \in StoreCreated,
                                              a \in Amounts}
                    \cup {MoneyRow("c2", 1, << 2024, 3, 15, 9 >>, << 250, 0, 0, 50 >>)}) :
        \A r1 \in T : \A r2 \in T : RowKey(r1) = RowKey(r2) => r1 = r2}

\* the bounds a caller passes ("" when not given)
StoreStarts == {EmptyText, << 2024, 3, 1 >>, << 2024, 3, 15 >>}

StoreEnds == {EmptyText, << 2024, 2, 29 >>, << 2024, 3, 15 >>, << 2024, 3, 31 >>}

\* the clients table: the row of c1 may be missing
StoreClients ==
    {[c \in Clients |-> IF c = "c1" /\ ~has
                        THEN NoClient
                        ELSE [company |-> << 20 >>, alias |-> << 21 >>, name |-> << 22 >>]] :
        has \in BOOLEAN}

InitStore ==
    /\ orders \in StoreTables
    /\ sync_state \in {[c \in Clients |-> NoRow],
                        [c \in Clients |-> [cursor |-> << 2 >>, updated_at |-> 0]]}
    /\ clients \in StoreClients
    /\ upstream = {}
    /\ run = RunIdle
    /\ hist = HistIdle
    /\ clock = 0
    /\ db_call = DbIdle
    /\ mr = MrIdle
    /\ rq = RqIdle
    /\ tc = TcIdle
    /\ win = WinIdle
    /\ fo = FoIdle
    /\ nz = NzIdle
    /\ gui = GuiIdle
    /\ cli = CliIdle
    /\ \E c \in Clients : \E sd \in StoreStarts : \E ed \in StoreEnds :
          sq = [SqIdle EXCEPT !.pc = "input", !.client_id = c, !.start_date = sd,
                              !.end_date = ed, !.before = orders, !.ss0 = sync_state,
                              !.clients0 = clients]

StoreOthers ==
    << sync_state, clients, upstream, run, hist, clock, db_call, mr, rq, tc, fo, nz, gui, cli,
       win >>

\* export_monthly_sheet_csv(conn, client_id, output_path, start_date, end_date)
ExportMonthlyCall ==
    /\ sq.pc = "input"
    /\ LET rows == fetch_monthly_for_export(orders, clients, sq.client_id,
                                            sq.start_date, sq.end_date)
       IN  sq' = [sq EXCEPT !.pc = "returned", !.op = "monthly",
                            !.rows = rows,
                            !.csv = [i \in 1 .. Len(rows) |-> CsvLine(rows[i])],
                            !.count = Len(rows)]
    /\ UNCHANGED orders
    /\ UNCHANGED StoreOthers

\* delete_orders_by_period(conn, client_id, start_date, end_date) and the commit
DeleteByPeriodCall ==
    /\ sq.pc = "input"
    /\ orders' = delete_orders_by_period(orders, sq.client_id, sq.start_date,
                                         sq.end_date).tbl
    /\ sq' = [sq EXCEPT !.pc = "returned", !.op = "delete",
                        !.count = delete_orders_by_period(orders, sq.client_id,
                                                          sq.start_date,
                                                          sq.end_date).rowcount]
    /\ UNCHANGED StoreOthers

NextStore == ExportMonthlyCall \/ DeleteByPeriodCall

SpecStore == InitStore /\ [][NextStore]_vars

\* the stored orders of the call's client inside the optional inclusive window
ExportSelected ==
    {r \in sq.before :
        /\ r[1] = sq.client_id
        /\ sq.start_date = EmptyText \/ TextLE(sq.start_date, r[7])
        /\ sq.end_date = EmptyText \/ TextLE(r[7], sq.end_date)}

\* the first day of the calendar month of a created-date
FirstOfMonth(d) == IF Len(d) = 3 THEN << d[1], d[2], 1 >> ELSE << 1 >>

\* the selected orders of one month
MonthGroup(data) == {r \in ExportSelected : FirstOfMonth(r[7]) = data}

\* C24: the monthly export has exactly one row per (month of created-date,
\* company, alias) group of the client's stored orders inside the optional
\* inclusive window; the row's sales are the sum of products plus shipment
\* over the group, its discount the sum of discount, its tax the sum of tax;
\* the rows are ordered by month, descending; the store is left as it was.
C24_MonthlyExport ==
    (sq.pc = "returned" /\ sq.op = "monthly") =>
        /\ sq.count = Len(sq.rows)
        /\ Len(sq.csv) = Len(sq.rows)
        /\ \A r \in ExportSelected :
              \E i \in 1 .. Len(sq.rows) : sq.rows[i].data = FirstOfMonth(r[7])
        /\ \A i \in 1 .. Len(sq.rows) :
              /\ MonthGroup(sq.rows[i].data) # {}
              /\ sq.rows[i].nome_empresa = sq.clients0[sq.client_id].company
              /\ sq.rows[i].alias = sq.clients0[sq.client_id].alias
              /\ sq.rows[i].vendas_de_produto =
                    SumColumn(MonthGroup(sq.rows[i].data), 9)
                        + SumColumn(MonthGroup(sq.rows[i].data), 10)
              /\ sq.rows[i].descontos_concedidos = SumColumn(MonthGroup(sq.rows[i].data), 11)
              /\ sq.rows[i].juros_de_venda = SumColumn(MonthGroup(sq.rows[i].data), 12)
              /\ sq.csv[i][4] = << "R$", sq.rows[i].vendas_de_produto \div 100,
                                   sq.rows[i].vendas_de_produto % 100 >>
              /\ sq.csv[i][5] = << "R$", sq.rows[i].descontos_concedidos \div 100,
                                   sq.rows[i].descontos_concedidos % 100 >>
              /\ sq.csv[i][6] = << "R$", sq.rows[i].juros_de_venda \div 100,
                                   sq.rows[i].juros_de_venda % 100 >>
        /\ \A i \in 1 .. Len(sq.rows) : \A j \in 1 .. Len(sq.rows) :
              i < j => TextLT(sq.rows[j].data, sq.rows[i].data)
        /\ orders = sq.before

\* one order of 100.00 + 10.00, discount 5.00, tax 2.00 created on 2024-03-15
\* is the only one in the window, among others outside it: the export has
\* the one row 2024-03-01 with 110.00, 5.00 and 2.00
C24_Witness ==
    /\ sq.pc = "returned"
    /\ sq.op = "monthly"
    /\ Cardinality(ExportSelected) = 1
    /\ Cardinality({r \in sq.before : r[1] = sq.client_id}) = 2
    /\ sq.rows = << [data |-> << 2024, 3, 1 >>,
                     nome_empresa |-> << 20 >>, alias |-> << 21 >>,
                     vendas_de_produto |-> 11000,
                     descontos_concedidos |-> 500,
                     juros_de_venda |-> 200] >>
    /\ sq.csv = << << << 1, 3, 2024 >>, << 20 >>, << 21 >>,
                     << "R$", 110, 0 >>, << "R$", 5, 0 >>, << "R$", 2, 0 >> >> >>

\* the rows of the call's client with start <= created-date <= end
InPeriod ==
    {r \in sq.before : /\ r[1] = sq.client_id
                       /\ TextLE(sq.start_date, r[7])
                       /\ TextLE(r[7], sq.end_date)}

\* C29: delete_orders_by_period removes exactly the client's rows whose
\* created-date lies in [start, end], both bounds included, returns their
\* number, leaves every other order row, every client row and every
\* SyncState record as it was, and removes nothing when start > end.
C29_DeleteByPeriodExact ==
    (sq.pc = "returned" /\ sq.op = "delete") =>
        /\ orders = sq.before \ InPeriod
        /\ sq.count = Cardinality(InPeriod)
        /\ sq.count = Cardinality(sq.before) - Cardinality(orders)
        /\ clients = sq.clients0
        /\ sync_state = sq.ss0
        /\ TextGT(sq.start_date, sq.end_date) => (orders = sq.before /\ sq.count = 0)

\* a delete removed the client's rows created on the first and on the last
\* day of the period and kept a row of another client created inside it
C29_Witness ==
    /\ sq.pc = "returned"
    /\ sq.op = "delete"
    /\ sq.count = 2
    /\ \E r \in sq.before \ orders : r[7] = sq.start_date
    /\ \E r \in sq.before \ orders : r[7] = sq.end_date
    /\ sq.start_date # sq.end_date
    /\ \E r \in orders : r[1] # sq.client_id /\ TextLE(sq.start_date, r[7])
                                               /\ TextLE(r[7], sq.end_date)
    /\ sync_state["c1"].cursor # None

(***************************************************************************)
(* SpecMonths: calls of _iter_month_ranges.                                *)
(***************************************************************************)
InitMonths ==
    /\ orders = {}
    /\ sync_state = [c \in Clients |-> NoRow]
    /\ upstream = {}
    /\ run = RunIdle
    /\ hist = HistIdle
    /\ clock = 0
    /\ db_call = DbIdle
    /\ rq = RqIdle
    /\ tc = TcIdle
    /\ win = WinIdle
    /\ clients = NoClients
    /\ nz = NzIdle
    /\ sq = SqIdle
    /\ gui = GuiIdle
    /\ cli = CliIdle
    /\ fo = FoIdle
    /\ \E s \in MonthDates : \E e \in MonthDates :
          mr = [pc |-> "input", start_date |-> s, end_date |-> e, ranges |-> << >>]

\* _iter_month_ranges(start_date, end_date)
IterMonthRangesCall ==
    /\ mr.pc = "input"
    /\ mr' = [mr EXCEPT !.pc = "returned",
                        !.ranges = iter_month_ranges(mr.start_date, mr.end_date)]
    /\ UNCHANGED << orders, sync_state, upstream, run, hist, clock, db_call, rq, tc, fo, rest >>

NextMonths == IterMonthRangesCall

SpecMonths == InitMonths /\ [][NextMonths]_vars

\* the number of calendar months from the month of a to the month of b
MonthsSpanned(a, b) == (b[1] * 12 + b[2]) - (a[1] * 12 + a[2]) + 1

\* C9: for valid dates start <= end spanning K calendar months the result has
\* exactly K ranges, each with first <= last inside one calendar month, the
\* first starting at start, the last ending at end, and each range starting
\* on the day after the previous one ends.
C9_MonthRangesPartition ==
    (mr.pc = "returned" /\ DateLE(mr.start_date, mr.end_date)) =>
        LET R == mr.ranges
            K == MonthsSpanned(mr.start_date, mr.end_date)
        IN  /\ Len(R) = K
            /\ \A i \in 1 .. Len(R) :
                  /\ ValidDate(R[i][1]) /\ ValidDate(R[i][2])
                  /\ DateLE(R[i][1], R[i][2])
                  /\ R[i][1][1] = R[i][2][1]
                  /\ R[i][1][2] = R[i][2][2]
            /\ R[1][1] = mr.start_date
            /\ R[Len(R)][2] = mr.end_date
            /\ \A i \in 1 .. (Len(R) - 1) :
                  /\ R[i + 1][1] = NextDay(R[i][2])
                  /\ R[i][2] # R[i + 1][1]
                  /\ DateLE(R[i][2], R[i + 1][1])

\* a window from inside one December to inside the next February
C9_Witness ==
    /\ mr.pc = "returned"
    /\ mr.start_date = << 2023, 12, 15 >>
    /\ mr.end_date = << 2024, 2, 29 >>
    /\ mr.ranges = << << << 2023, 12, 15 >>, << 2023, 12, 31 >> >>,
                      << << 2024, 1, 1 >>, << 2024, 1, 31 >> >>,
                      << << 2024, 2, 1 >>, << 2024, 2, 29 >> >> >>

(***************************************************************************)
(* Spec: sync_yampi_orders and reprocess_orders_for_period.                *)
(* The database file outlives the process (connect and init_db open and    *)
(* migrate an existing file), so a run may find rows and a cursor that an  *)
(* earlier run or release stored.                                          *)
(***************************************************************************)
\* rows found in the store at start
SeedRows ==
    {StoredRow("c1", [id |-> i, status |-> << 1 >>, updated_at |-> << 1, 0 >>,
                      created_at |-> CreatedAtOf(i)], 0) : i \in OrderIds}
    \cup {StoredRow("c2", [id |-> 1, status |-> << 1 >>, updated_at |-> << 1, 0 >>,
                           created_at |-> CreatedAtOf(1)], 0)}

\* sync_state rows found at start
SeedStates == {NoRow} \cup {[cursor |-> u, updated_at |-> 0] : u \in Stamps}

\* the data sets the API may hold: at most one record per order id
UpstreamSets ==
    {S \in SUBSET RawOrders : \A a \in S : \A b \in S : a.id = b.id => a = b}

Init ==
    /\ orders \in SUBSET SeedRows
    /\ sync_state \in {ss \in [Clients -> SeedStates] :
                          ss["c2"] \in {NoRow, [cursor |-> << 1, 0 >>, updated_at |-> 0]}}
    /\ upstream \in UpstreamSets
    /\ run = RunIdle
    /\ hist = HistIdle
    /\ clock = 0
    /\ db_call = DbIdle
    /\ mr = MrIdle
    /\ rq = RqIdle
    /\ tc = TcIdle
    /\ win = WinIdle
    /\ clients = NoClients
    /\ nz = NzIdle
    /\ sq = SqIdle
    /\ gui = GuiIdle
    /\ cli = CliIdle
    /\ fo = FoIdle

\* line 202-204: the cursor a run starts from
SyncCursor(ss, client_id, start_date, end_date) ==
    IF Truthy(start_date) \/ Truthy(end_date) THEN None
    ELSE get_cursor(ss, client_id)

\* a month loop that visits its first month twice
SyncWindows_first_twice(start_date, end_date) ==
    IF Truthy(start_date) /\ Truthy(end_date)
    THEN IF iter_month_ranges(start_date, end_date) = << >> THEN << >>
         ELSE << Head(iter_month_ranges(start_date, end_date)) >>
                 \o iter_month_ranges(start_date, end_date)
    ELSE << << EmptyText, EmptyText >> >>

\* line 251-257: the windows a run visits, in order; without both dates the
\* one window ("", "")
SyncWindows(start_date, end_date) ==
    IF Truthy(start_date) /\ Truthy(end_date)
    THEN iter_month_ranges(start_date, end_date)
    ELSE << << EmptyText, EmptyText >> >>

\* a final guard that holds for every run
WritesCursor_always(start_date, end_date) == TRUE

\* line 260: if not start_date and not end_date
WritesCursor(start_date, end_date) == ~Truthy(start_date) /\ ~Truthy(end_date)

\* line 219: while page <= min(total_pages, max_pages)
LoopContinues(page, total_pages, max_pages) ==
    page <= (IF total_pages < max_pages THEN total_pages ELSE max_pages)

\* a loop that never stops on an empty page
PageIsEmpty_never(raw_orders) == FALSE

\* line 230: if not raw_orders: break
PageIsEmpty(raw_orders) == raw_orders = << >>

\* a window that forgets the cursor it was given
InitialMaxSeen_none(window_cursor) == None

\* line 214: max_seen = window_cursor
InitialMaxSeen(window_cursor) == window_cursor

\* line 239-240: max_seen after a page
PageMaxSeen(max_seen, page_cursor) ==
    IF Truthy(page_cursor) /\ (max_seen = None \/ TextGT(page_cursor, max_seen))
    THEN page_cursor
    ELSE max_seen

\* the request of the next fetch of the window
NextRequest(r) ==
    FetchParams(r.page, PageSize, r.scroll_id, r.window_cursor,
                r.window_start, r.window_end)

\* lines 248-249 after 201-210: the locals of sync_yampi_orders before the first window
SyncEntry(op, ss, client_id, start_date, end_date, deleted) ==
    [RunIdle EXCEPT
        !.pc = "window", !.op = op, !.client_id = client_id,
        !.start_date = start_date, !.end_date = end_date,
        !.cursor = SyncCursor(ss, client_id, start_date, end_date),
        !.windows = SyncWindows(start_date, end_date),
        !.total_rows = 0,
        !.max_seen_cursor = SyncCursor(ss, client_id, start_date, end_date),
        !.deleted = deleted]

\* line 246 and 254-255 / 257-258: _sync_window returns; the caller adds the
\* rows and, outside the month loop, takes the returned cursor
EndOfWindow(r) ==
    [r EXCEPT
        !.pc = "window",
        !.resp = NoResp,
        !.total_rows = r.total_rows + r.rows_total,
        !.max_seen_cursor =
            IF Truthy(r.start_date) /\ Truthy(r.end_date) THEN r.max_seen_cursor
            ELSE r.max_seen]

\* a caller starts sync_yampi_orders(client, start_date, end_date)
StartSync ==
    \E c \in Clients : \E sd \in WindowDates \cup {EmptyText} :
    \E ed \in WindowDates \cup {EmptyText} :
        /\ run.pc \in {"idle", "done", "failed"}
        /\ clock < MaxRuns
        /\ clock' = clock + 1
        /\ run' = SyncEntry("sync", sync_state, c, sd, ed, 0)
        /\ hist' = [HistIdle EXCEPT !.orders0 = orders, !.ss0 = sync_state]
        /\ UNCHANGED << orders, sync_state, upstream, db_call, mr, rq, tc, fo, rest >>

\* a caller starts reprocess_orders_for_period(client, start_date, end_date):
\* the delete, its commit, then the entry of sync_yampi_orders
StartReprocess ==
    \E c \in Clients : \E sd \in WindowDates : \E ed \in WindowDates :
        /\ run.pc \in {"idle", "done", "failed"}
        /\ clock < MaxRuns
        /\ clock' = clock + 1
        /\ orders' = delete_orders_by_period(orders, c, sd, ed).tbl
        /\ run' = SyncEntry("reprocess", sync_state, c, sd, ed,
                            delete_orders_by_period(orders, c, sd, ed).rowcount)
        /\ hist' = [HistIdle EXCEPT !.orders0 = orders, !.ss0 = sync_state]
        /\ UNCHANGED << sync_state, upstream, db_call, mr, rq, tc, fo, rest >>

\* lines 213-217: _sync_window is entered for the next window
BeginWindow ==
    /\ run.pc = "window"
    /\ run.windows # << >>
    /\ LET r == [run EXCEPT
                    !.windows = Tail(run.windows),
                    !.window_start = Head(run.windows)[1],
                    !.window_end = Head(run.windows)[2],
                    !.window_cursor =
                        IF Truthy(run.start_date) /\ Truthy(run.end_date) THEN None
                        ELSE run.cursor,
                    !.rows_total = 0,
                    !.max_seen =
                        InitialMaxSeen(IF Truthy(run.start_date) /\ Truthy(run.end_date)
                                       THEN None
                                       ELSE run.cursor),
                    !.scroll_id = None,
                    !.total_pages = 1,
                    !.page = 1,
                    !.resp = NoResp]
       IN  run' = IF LoopContinues(r.page, r.total_pages, MaxPages)
                  THEN [r EXCEPT !.pc = "fetch"]
                  ELSE EndOfWindow(r)
    /\ hist' = [hist EXCEPT !.windows = Append(@, Head(run.windows))]
    /\ UNCHANGED << orders, sync_state, upstream, clock, db_call, mr, rq, tc, fo, rest >>

\* line 220-228: fetch_orders returns the page
FetchOk ==
    \E sc \in ScrollIds : \E skew \in PageCountSkew :
        /\ run.pc = "fetch"
        /\ run' = [run EXCEPT !.pc = "page",
                              !.resp = Reported(ApiPage(upstream, NextRequest(run), sc),
                                                skew)]
        /\ hist' = [hist EXCEPT
                      !.requests = @ \cup {NextRequest(run)},
                      !.served = @ \cup
                          {ApiPage(upstream, NextRequest(run), sc).raw_orders[i] :
                              i \in 1 .. Len(ApiPage(upstream, NextRequest(run), sc).raw_orders)}]
        /\ UNCHANGED << orders, sync_state, upstream, clock, db_call, mr, rq, tc, fo, rest >>

\* a fetch whose error is swallowed: the run goes on to its end
FetchRaise_swallowed ==
    /\ run.pc = "fetch"
    /\ run' = [EndOfWindow(run) EXCEPT !.windows = << >>]
    /\ hist' = [hist EXCEPT !.requests = @ \cup {NextRequest(run)},
                            !.fetch_raised = TRUE]
    /\ UNCHANGED << orders, sync_state, upstream, clock, db_call, mr, rq, tc, fo, rest >>

\* line 220-228: fetch_orders raises (retries exhausted, HTTP error); nothing
\* catches it in sync_yampi_orders, the run ends with the exception
FetchRaise ==
    /\ run.pc = "fetch"
    /\ run' = [run EXCEPT !.pc = "failed", !.error = "fetch"]
    /\ hist' = [hist EXCEPT !.requests = @ \cup {NextRequest(run)},
                            !.fetch_raised = TRUE]
    /\ UNCHANGED << orders, sync_state, upstream, clock, db_call, mr, rq, tc, fo, rest >>

\* lines 229-244 and the loop test of line 219: the fetched page is
\* normalized, upserted and committed
ProcessPage ==
    /\ run.pc = "page"
    /\ LET tp == IF run.total_pages < run.resp.total_pages
                 THEN run.resp.total_pages ELSE run.total_pages
           n == normalize_orders(run.client_id, run.resp.raw_orders, clock)
           up == upsert_orders(orders, n.rows)
           r == [run EXCEPT
                    !.total_pages = tp,
                    !.rows_total = run.rows_total + Len(n.rows),
                    !.max_seen = PageMaxSeen(run.max_seen, n.max_updated),
                    !.scroll_id = IF Truthy(run.resp.next_scroll_id)
                                  THEN run.resp.next_scroll_id ELSE run.scroll_id,
                    !.page = run.page + 1]
       IN  IF PageIsEmpty(run.resp.raw_orders)
           THEN /\ run' = EndOfWindow([run EXCEPT !.total_pages = tp])
                /\ orders' = orders
                /\ hist' = hist
           ELSE IF n.raised
           THEN /\ run' = [run EXCEPT !.pc = "failed", !.error = "normalize",
                                      !.total_pages = tp, !.resp = NoResp]
                /\ orders' = orders
                /\ hist' = hist
           ELSE IF n.rows # << >> /\ up.raised
           THEN /\ run' = [run EXCEPT !.pc = "failed", !.error = "persist",
                                      !.total_pages = tp, !.resp = NoResp]
                /\ orders' = up.tbl
                /\ hist' = hist
           ELSE /\ run' = IF LoopContinues(r.page, r.total_pages, MaxPages)
                          THEN [r EXCEPT !.pc = "fetch"]
                          ELSE EndOfWindow(r)
                /\ orders' = up.tbl
                /\ hist' = [hist EXCEPT
                              !.committed = @ \cup {n.rows[i] : i \in 1 .. Len(n.rows)},
                              !.upserted = @ + Len(n.rows)]
    /\ UNCHANGED << sync_state, upstream, clock, db_call, mr, rq, tc, fo, rest >>

\* lines 260-263: after the last window the cursor is written (incremental
\* runs only) and the call returns total_rows
Finish ==
    /\ run.pc = "window"
    /\ run.windows = << >>
    /\ run' = [run EXCEPT !.pc = "done"]
    /\ IF WritesCursor(run.start_date, run.end_date)
       THEN /\ sync_state' = set_cursor(sync_state, run.client_id,
                                        run.max_seen_cursor, clock)
            /\ hist' = [hist EXCEPT !.cursor_writes = @ + 1]
       ELSE UNCHANGED << sync_state, hist >>
    /\ UNCHANGED << orders, upstream, clock, db_call, mr, rq, tc, fo, rest >>

\* between two runs the remote data changes
UpstreamChange ==
    \E S \in UpstreamSets :
        /\ run.pc \in {"done", "failed"}
        /\ clock < MaxRuns
        /\ S # upstream
        /\ upstream' = S
        /\ run' = RunIdle
        /\ hist' = HistIdle
        /\ UNCHANGED << orders, sync_state, clock, db_call, mr, rq, tc, fo, rest >>

Next ==
    \/ StartSync
    \/ StartReprocess
    \/ BeginWindow
    \/ FetchOk
    \/ FetchRaise
    \/ ProcessPage
    \/ Finish
    \/ UpstreamChange

Spec == Init /\ [][Next]_vars

\* the runs of SpecFair start from a store that holds every seed row and has
\* no cursor for the second client
InitFair ==
    /\ Init
    /\ orders = SeedRows
    /\ sync_state["c2"] = NoRow

\* the statements of a run follow one another, and every fetch returns or
\* raises (each HTTP attempt has a timeout, the retries are bounded)
SpecFair ==
    /\ InitFair
    /\ [][Next]_vars
    /\ WF_vars(BeginWindow)
    /\ WF_vars(FetchOk \/ FetchRaise)
    /\ WF_vars(ProcessPage)
    /\ WF_vars(Finish)

(***************************************************************************)
(* Properties of the sync orchestrator and the reprocessor (Spec).         *)
(***************************************************************************)
\* a run with no explicit date at all
Incremental(r) == ~Truthy(r.start_date) /\ ~Truthy(r.end_date)

\* a run with both explicit dates
Windowed(r) == Truthy(r.start_date) /\ Truthy(r.end_date)

\* the stored row of client c lies in the inclusive created-date window [s, e]
RowInWindow(r, c, s, e) == r[1] = c /\ TextLE(s, r[7]) /\ TextLE(r[7], e)

\* cursor a is not below cursor b (no cursor is below every cursor)
CursorGE(a, b) == b = None \/ (a # None /\ TextLE(b, a))

\* the record is stored for the client, with the content that was fetched
StoredAsFetched(c, o) ==
    \E r \in orders : r[1] = c /\ r[2] = ToStr(o.id) /\ r[15] = o

C3_CursorNeverDecreases ==
    [][\A c \in Clients : CursorGE(sync_state'[c].cursor, sync_state[c].cursor)]_vars

\* a later incremental run has completed and rewritten a cursor that was set
C3_Witness ==
    /\ clock >= 2
    /\ run.pc = "done"
    /\ Incremental(run)
    /\ hist.cursor_writes = 1
    /\ hist.ss0[run.client_id].cursor # None
    /\ sync_state[run.client_id].updated_at = clock

\* the API holds no record updated after the cursor
NoNewerUpstream(data, cursor) ==
    \A o \in data :
        ~(Truthy(o.updated_at) /\ (cursor = None \/ TextGT(o.updated_at, cursor)))

\* C4: an incremental run made while the API holds no record with an
\* updated-at above the stored cursor ends (completed or failed) with the
\* cursor equal to its value before the run.
C4_NoNewDataKeepsCursor ==
    (run.pc \in {"done", "failed"} /\ Incremental(run)
        /\ NoNewerUpstream(upstream, hist.ss0[run.client_id].cursor)) =>
        sync_state[run.client_id].cursor = hist.ss0[run.client_id].cursor

\* such a run has completed against a non-empty API and has written the cursor
C4_Witness ==
    /\ run.pc = "done"
    /\ Incremental(run)
    /\ upstream # {}
    /\ NoNewerUpstream(upstream, hist.ss0[run.client_id].cursor)
    /\ hist.ss0[run.client_id].cursor # None
    /\ hist.cursor_writes = 1
    /\ \E q \in hist.requests : q.updated_at_min = hist.ss0[run.client_id].cursor

\* C5: a run with both explicit dates leaves every SyncState record as it
\* was, at every point of the run and however it ends, holds no cursor
\* locally and sends no request with a since filter.
C5_WindowedIgnoresCursor ==
    (run.pc # "idle" /\ Windowed(run)) =>
        /\ sync_state = hist.ss0
        /\ hist.cursor_writes = 0
        /\ run.cursor = None
        /\ run.window_cursor = None
        /\ \A q \in hist.requests : q.updated_at_min = None

\* a windowed run over two months has completed for a client with a cursor
C5_Witness ==
    /\ run.pc = "done"
    /\ Windowed(run)
    /\ hist.ss0[run.client_id].cursor # None
    /\ Cardinality({q.date : q \in hist.requests}) = 2

\* C7: an incremental run writes the cursor at most once, only in the step
\* that completes it after the pagination loop ended without an exception;
\* until then, and for good when a fetch raised, the SyncState table is as
\* it was when the run started.
C7_CursorWrittenOnlyAtEnd ==
    (run.pc # "idle" /\ Incremental(run)) =>
        /\ hist.cursor_writes <= 1
        /\ hist.cursor_writes = 1 => (run.pc = "done" /\ ~hist.fetch_raised)
        /\ run.pc # "done" => sync_state = hist.ss0
        /\ hist.fetch_raised => (run.pc = "failed" /\ sync_state = hist.ss0)

\* an incremental run of a client with a cursor has failed in a fetch
C7_Witness ==
    /\ run.pc = "failed"
    /\ Incremental(run)
    /\ hist.fetch_raised
    /\ hist.ss0[run.client_id].cursor # None
    /\ \E q \in hist.requests : q.updated_at_min # None

\* C8: once a fetched page has been processed (the next fetch is due, the
\* window or the run has ended, or the run has failed), every record fetched
\* so far in the run is committed in the store.
C8_FetchedPagesCommitted ==
    run.pc \in {"fetch", "window", "done", "failed"} =>
        \A o \in hist.served : StoredAsFetched(run.client_id, o)

\* exactly one of start_date / end_date was passed
OneSided(r) == Truthy(r.start_date) # Truthy(r.end_date)

\* the one date a one-sided run was given
GivenDate(r) == IF Truthy(r.start_date) THEN r.start_date ELSE r.end_date

\* C16: a sync called with exactly one of start date / end date leaves the
\* SyncState table alone and every request it sends carries the created_at
\* range filter with both bounds equal to the given date; none goes out
\* without a date filter.
C16_OneSidedIsWindowed ==
    (run.pc # "idle" /\ OneSided(run)) =>
        /\ sync_state = hist.ss0
        /\ \A q \in hist.requests : q.date = << GivenDate(run), GivenDate(run) >>

\* the smaller of two page numbers
MinPage(a, b) == IF a < b THEN a ELSE b

\* the larger of two page counts
MaxPageCount(a, b) == IF a < b THEN b ELSE a

C21_EmptyRunWritesNothing ==
    /\ (run.pc = "done" /\ Incremental(run) /\ hist.served = {}) =>
          /\ sync_state = hist.ss0
          /\ hist.cursor_writes = 0
    /\ \A c \in Clients : sync_state[c] # NoRow => Truthy(sync_state[c].cursor)

\* the greatest text of a non-empty set, in lexicographic order
MaxText(S) == CHOOSE t \in S : \A u \in S : TextLE(u, t)

\* the cursor the run loaded and the updated-at of every record of its pages
CursorCandidates ==
    (IF hist.ss0[run.client_id].cursor = None THEN {}
     ELSE {hist.ss0[run.client_id].cursor})
    \cup {o.updated_at : o \in {x \in hist.served : Truthy(x.updated_at)}}

C32_TuplesMatchColumns ==
    /\ run.pc = "page" =>
          LET n == normalize_orders(run.client_id, run.resp.raw_orders, clock)
          IN  \A i \in 1 .. Len(n.rows) : Len(n.rows[i]) = NumColumns
    /\ run.error # "persist"

\* the rows of the client that lie in the window of the run
WindowRows(tbl) ==
    {r \in tbl : RowInWindow(r, run.client_id, run.start_date, run.end_date)}

\* C33: a reprocess is not atomic: the deletion is committed before the first
\* fetch, so at every later point of the call, and for good when the re-sync
\* fails at some page, the deleted rows stay deleted: the client's stored
\* orders inside the window are exactly the rows of the pages committed so
\* far, every other row is as it was, and the count of deleted rows is the
\* number of rows the window held.
C33_ReprocessNotAtomic ==
    (run.op = "reprocess" /\ run.pc # "idle") =>
        /\ WindowRows(orders) = hist.committed
        /\ orders \ WindowRows(orders) = hist.orders0 \ WindowRows(hist.orders0)
        /\ run.deleted = Cardinality(WindowRows(hist.orders0))
        /\ hist.upserted = Cardinality(hist.committed)

\* a reprocess over two months failed in the fetch of the second month after
\* the delete had removed stored rows of the window: they are not back
C33_Witness ==
    /\ run.op = "reprocess"
    /\ run.pc = "failed"
    /\ run.error = "fetch"
    /\ Cardinality(hist.requests) = 2
    /\ run.deleted >= 1
    /\ WindowRows(hist.orders0) # {}
    /\ WindowRows(orders) = {}

\* the records the API serves, over all its pages, for the since filter of
\* the incremental run
SinceServed ==
    ApiSelect(upstream,
              FetchParams(1, PageSize, None, run.cursor, EmptyText, EmptyText))

\* the stored cursor of the run's client lies above the record's updated-at
CursorPast(o) ==
    /\ Truthy(o.updated_at)
    /\ sync_state[run.client_id].cursor # None
    /\ TextGT(sync_state[run.client_id].cursor, o.updated_at)

RowsOf(tbl, c) == {r \in tbl : r[1] = c}

\* C38: a sync or reprocess for one client never inserts, updates or deletes
\* an order row of another client and never changes another client's
\* SyncState record, at any step, whatever the API answers and wherever the
\* run fails; every tuple built from a fetched page carries the id of the
\* run's client.
C38_ClientIsolation ==
    [][/\ \A c \in Clients \ {run'.client_id} :
              /\ RowsOf(orders', c) = RowsOf(orders, c)
              /\ sync_state'[c] = sync_state[c]
       /\ run.pc = "page" =>
              LET n == normalize_orders(run.client_id, run.resp.raw_orders, clock)
              IN  \A i \in 1 .. Len(n.rows) : n.rows[i][1] = run.client_id]_vars

\* a reprocess for c1 has ended after deleting rows of c1 while the row of
\* c2 created inside the same window is still stored, and the cursor of c2
\* is the one it had
C38_Witness ==
    /\ run.op = "reprocess"
    /\ run.client_id = "c1"
    /\ run.pc \in {"done", "failed"}
    /\ run.deleted >= 1
    /\ \E r \in orders : RowInWindow(r, "c2", run.start_date, run.end_date)
    /\ sync_state["c2"].cursor # None
    /\ hist.served # {}

\* the requests of the run sent for the window
FetchesOf(w) ==
    IF Truthy(w[1]) THEN {q \in hist.requests : q.date = w} ELSE hist.requests

\* the windows are visited once each, in chronological order, with a bounded
\* number of fetches, and a completed run returns the number of rows upserted
SyncProgress ==
    run.pc # "idle" =>
        /\ hist.windows \o run.windows =
              (IF Windowed(run)
               THEN iter_month_ranges(run.start_date, run.end_date)
               ELSE << << EmptyText, EmptyText >> >>)
        /\ \A i \in 1 .. Len(hist.windows) : \A j \in 1 .. Len(hist.windows) :
              i < j => TextLT(hist.windows[i][2], hist.windows[j][1])
        /\ \A i \in 1 .. Len(hist.windows) :
              /\ Cardinality(FetchesOf(hist.windows[i])) <= MaxPages
              /\ Cardinality(FetchesOf(hist.windows[i])) <= run.page
        /\ \A q \in hist.requests :
              \E i \in 1 .. Len(hist.windows) : q \in FetchesOf(hist.windows[i])
        /\ run.pc = "done" =>
              /\ run.windows = << >>
              /\ run.total_rows = hist.upserted
              /\ run.total_rows = Cardinality(hist.committed)

\* C39: a sync run terminates when each fetch returns or raises; a windowed
\* run visits each month sub-range of its period exactly once, in
\* chronological order; each window sends at most max_pages fetches; and the
\* count a completed run returns is the number of rows upserted over all its
\* pages and windows.
C39_SyncTerminates ==
    /\ [] SyncProgress
    /\ (run.pc \in {"window", "fetch", "page"}) ~> (run.pc \in {"done", "failed"})

\* a windowed run over two months has completed: January, then February,
\* one fetch each
C39_Witness ==
    /\ run.pc = "done"
    /\ Windowed(run)
    /\ hist.windows = << << << 2024, 1, 31 >>, << 2024, 1, 31 >> >>,
                         << << 2024, 2, 1 >>, << 2024, 2, 1 >> >> >>
    /\ Cardinality(hist.requests) = 2
    /\ run.total_rows = 0
    /\ orders = hist.orders0

(***************************************************************************)
(* SpecGui: the background tasks of the window that run a sync or a        *)
(* reprocess over the selected clients.  Both handlers start the task only *)
(* with both dates given, so every engine call of a task is windowed and   *)
(* writes no cursor.  attempted and returned record, for the properties,   *)
(* the clients the loop has visited and those whose call returned.         *)
(***************************************************************************)
\* _selected_clients: the checked clients, in the order of the list
Selections == {<< "c1" >>, << "c2" >>, << "c1", "c2" >>}

\* the month the reprocess handler derives from the dates (lines 978-984)
GuiMonths == {<< << 2024, 1, 1 >>, << 2024, 1, 31 >> >>,
              << << 2024, 2, 1 >>, << 2024, 2, 29 >> >>}

\* the row upsert_client writes for a client of the configuration
ConfigRow(c) == [company |-> << 20 >>, alias |-> << 21 >>, name |-> << 22 >>]

\* upsert_client: INSERT ... ON CONFLICT(id) DO UPDATE SET every other column
upsert_client(cl, c) == [cl EXCEPT ![c] = ConfigRow(c)]

\* what a windowed sync_yampi_orders that returns reports: a run returns only
\* when every page it fetched was empty, a non-empty page ends it in
\* upsert_orders
SyncReturns == {0}

\* lines 750-775: the message box of the sync task
SyncSummary(results, errors) ==
    IF errors # << >>
    THEN IF results # << >> THEN "Parcial" ELSE "Erro"
    ELSE "Sucesso"

\* lines 1051-1083: the message box of the reprocess task
ReprocessSummary(totals_deleted, totals_synced, errors) ==
    IF errors # << >>
    THEN IF totals_deleted # 0 \/ totals_synced # 0 THEN "Parcial" ELSE "Erro"
    ELSE "Sucesso"

InitGui ==
    /\ orders \in SUBSET SeedRows
    /\ sync_state = [c \in Clients |-> NoRow]
    /\ clients \in StoreClients
    /\ upstream = {}
    /\ run = RunIdle
    /\ hist = HistIdle
    /\ clock = 0
    /\ db_call = DbIdle
    /\ mr = MrIdle
    /\ rq = RqIdle
    /\ tc = TcIdle
    /\ win = WinIdle
    /\ fo = FoIdle
    /\ nz = NzIdle
    /\ sq = SqIdle
    /\ cli = CliIdle
    /\ \E sel \in Selections : \E mo \in GuiMonths :
       \E op \in {"sync", "reprocess"} :
          gui = [GuiIdle EXCEPT !.pc = "loop", !.op = op, !.selection = sel,
                                !.month_start = mo[1], !.month_end = mo[2]]

GuiOthers ==
    << sync_state, upstream, run, hist, clock, db_call, mr, rq, tc, fo, nz, sq, cli, win >>

\* the next client of the loop
NextClient == gui.selection[Len(gui.attempted) + 1]

\* gui.py 704-730: one turn of the loop of the sync task: upsert_client,
\* commit, and sync_yampi_orders returns
GuiSyncReturns ==
    \E processed \in SyncReturns :
        /\ gui.pc = "loop" /\ gui.op = "sync"
        /\ Len(gui.attempted) < Len(gui.selection)
        /\ clients' = upsert_client(clients, NextClient)
        /\ gui' = [gui EXCEPT !.attempted = Append(@, NextClient),
                              !.returned = Append(@, NextClient),
                              !.results = Append(@, << NextClient, processed >>)]
        /\ UNCHANGED orders
        /\ UNCHANGED GuiOthers

\* gui.py 704-729, 737-738: one turn in which sync_yampi_orders raises
GuiSyncRaises ==
    /\ gui.pc = "loop" /\ gui.op = "sync"
    /\ Len(gui.attempted) < Len(gui.selection)
    /\ clients' = upsert_client(clients, NextClient)
    /\ gui' = [gui EXCEPT !.attempted = Append(@, NextClient),
                          !.errors = Append(@, NextClient)]
    /\ UNCHANGED orders
    /\ UNCHANGED GuiOthers

\* gui.py 1002-1034: one turn of the loop of the reprocess task: upsert_client,
\* commit, and reprocess_orders_for_period returns (deleted, synced)
GuiReprocessReturns ==
    \E synced \in SyncReturns :
        /\ gui.pc = "loop" /\ gui.op = "reprocess"
        /\ Len(gui.attempted) < Len(gui.selection)
        /\ clients' = upsert_client(clients, NextClient)
        /\ orders' = delete_orders_by_period(orders, NextClient, gui.month_start,
                                             gui.month_end).tbl
        /\ gui' = [gui EXCEPT
                      !.attempted = Append(@, NextClient),
                      !.returned = Append(@, NextClient),
                      !.totals_deleted =
                          @ + delete_orders_by_period(orders, NextClient, gui.month_start,
                                                      gui.month_end).rowcount,
                      !.totals_synced = @ + synced]
        /\ UNCHANGED GuiOthers

\* gui.py 1002-1032, 1041-1042: one turn in which the sync of
\* reprocess_orders_for_period raises, after the delete and its commit
GuiReprocessRaises ==
    /\ gui.pc = "loop" /\ gui.op = "reprocess"
    /\ Len(gui.attempted) < Len(gui.selection)
    /\ clients' = upsert_client(clients, NextClient)
    /\ orders' = delete_orders_by_period(orders, NextClient, gui.month_start,
                                         gui.month_end).tbl
    /\ gui' = [gui EXCEPT !.attempted = Append(@, NextClient),
                          !.errors = Append(@, NextClient)]
    /\ UNCHANGED GuiOthers

\* gui.py 745-775 and 1049-1083: after the loop the task shows its summary
GuiSummary ==
    /\ gui.pc = "loop"
    /\ Len(gui.attempted) = Len(gui.selection)
    /\ gui' = [gui EXCEPT
                  !.pc = "done",
                  !.summary =
                      IF gui.op = "sync" THEN SyncSummary(gui.results, gui.errors)
                      ELSE ReprocessSummary(gui.totals_deleted, gui.totals_synced,
                                            gui.errors)]
    /\ UNCHANGED << orders, clients >>
    /\ UNCHANGED GuiOthers

NextGui ==
    \/ GuiSyncReturns
    \/ GuiSyncRaises
    \/ GuiReprocessReturns
    \/ GuiReprocessRaises
    \/ GuiSummary

SpecGui == InitGui /\ [][NextGui]_vars

\* the elements of a sequence
Range(q) == {q[i] : i \in 1 .. Len(q)}

\* C25: in a sync or reprocess over several selected clients every selected
\* client is attempted exactly once, in selection order, whatever happened
\* to the clients before it, and ends either among the clients whose call
\* returned or among the failures, never in both; when the task ends with at
\* least one client of each kind, its summary reports a partial success.
C25_PerClientIsolation ==
    /\ \A i \in 1 .. Len(gui.attempted) : gui.attempted[i] = gui.selection[i]
    /\ Len(gui.attempted) <= Len(gui.selection)
    /\ Range(gui.returned) \cup Range(gui.errors) = Range(gui.attempted)
    /\ Range(gui.returned) \cap Range(gui.errors) = {}
    /\ Len(gui.returned) + Len(gui.errors) = Len(gui.attempted)
    /\ gui.op = "sync" => gui.returned = [i \in 1 .. Len(gui.results) |-> gui.results[i][1]]
    /\ gui.pc = "done" =>
          /\ gui.attempted = gui.selection
          /\ (gui.returned # << >> /\ gui.errors # << >>) => gui.summary = "Parcial"

(***************************************************************************)
(* SpecWindow: AppGUI._run_background and AppGUI._set_busy.  A click on a  *)
(* task button runs its handler on the main thread; the handler either     *)
(* returns after its validation or calls _run_background, which sets the   *)
(* window busy and starts a thread.  The thread hands its callbacks to the *)
(* main loop with root.after(0, ...); the main loop runs them in the order *)
(* they were handed over.  tasks lists the threads started, completed the  *)
(* threads whose _set_busy(False) callback has run; the log callbacks of   *)
(* the task bodies change no state of the window and are left out.         *)
(***************************************************************************)
\* clicks on task buttons in one behaviour
MaxClicks == 3

\* a _set_busy that leaves the update button as it was
set_busy_skips_update(w, busy) ==
    [w EXCEPT !.busy = busy,
              !.controls = [c \in Controls |->
                               IF c = "update" THEN w.controls[c]
                               ELSE ControlState(c, busy)]]

\* gui.py 554-578: _set_busy(busy)
set_busy(w, busy) ==
    [w EXCEPT !.busy = busy,
              !.controls = [c \in Controls |-> ControlState(c, busy)]]

InitWindow ==
    /\ orders = {}
    /\ sync_state = [c \in Clients |-> NoRow]
    /\ upstream = {}
    /\ run = RunIdle
    /\ hist = HistIdle
    /\ clock = 0
    /\ db_call = DbIdle
    /\ mr = MrIdle
    /\ rq = RqIdle
    /\ tc = TcIdle
    /\ win = WinIdle
    /\ fo = FoIdle
    /\ clients = NoClients
    /\ nz = NzIdle
    /\ sq = SqIdle
    /\ gui = GuiIdle
    /\ cli = CliIdle

WinOthers ==
    << orders, sync_state, upstream, run, hist, clock, db_call, mr, rq, tc, fo,
       clients, nz, sq, gui, cli >>

\* gui.py 540-552: a click on an enabled task button whose handler reaches
\* _run_background: _set_busy(True), then the thread is started
ClickStartsTask ==
    \E b \in TaskButtons :
        /\ win.clicks < MaxClicks
        /\ win.controls[b] = "normal"
        /\ win' = [set_busy(win, TRUE) EXCEPT
                      !.clicks = @ + 1,
                      !.tasks = Append(@, [op |-> b, pc |-> "running"])]
        /\ UNCHANGED WinOthers

\* gui.py 632-637, 680-699 and the like: the handler shows a warning and
\* returns before _run_background (no client selected, a date missing);
\* _update_app_clicked has no such test
ClickReturnsEarly ==
    \E b \in TaskButtons \ {"update"} :
        /\ win.clicks < MaxClicks
        /\ win.controls[b] = "normal"
        /\ win' = [win EXCEPT !.clicks = @ + 1]
        /\ UNCHANGED WinOthers

\* gui.py 544-545, 549-550: fn() returns; the finally clause hands
\* _set_busy(False) to the main loop
TaskReturns ==
    \E i \in 1 .. Len(win.tasks) :
        /\ win.tasks[i].pc = "running"
        /\ win' = [win EXCEPT
                      !.tasks[i].pc = "returned",
                      !.queue = Append(@, [task |-> i, call |-> "set_busy"])]
        /\ UNCHANGED WinOthers

\* gui.py 546-550: fn() raises; the except clause hands the log line and
\* the error box to the main loop, the finally clause _set_busy(False)
TaskRaises ==
    \E i \in 1 .. Len(win.tasks) :
        /\ win.tasks[i].pc = "running"
        /\ win' = [win EXCEPT
                      !.tasks[i].pc = "raised",
                      !.queue = @ \o << [task |-> i, call |-> "log"],
                                        [task |-> i, call |-> "showerror"],
                                        [task |-> i, call |-> "set_busy"] >>]
        /\ UNCHANGED WinOthers

\* the main loop runs the callback that is due first
RunCallback ==
    /\ win.queue # << >>
    /\ win' = IF Head(win.queue).call = "set_busy"
              THEN [set_busy(win, FALSE) EXCEPT
                       !.queue = Tail(win.queue),
                       !.completed = @ \cup {Head(win.queue).task}]
              ELSE [win EXCEPT !.queue = Tail(win.queue)]
    /\ UNCHANGED WinOthers

NextWindow ==
    \/ ClickStartsTask
    \/ ClickReturnsEarly
    \/ TaskReturns
    \/ TaskRaises
    \/ RunCallback

\* root.mainloop() runs every callback handed to root.after
SpecWindow ==
    /\ InitWindow
    /\ [][NextWindow]_vars
    /\ WF_vars(RunCallback)

\* the threads started whose completion callback has not run
InFlightTasks == {i \in 1 .. Len(win.tasks) : i \notin win.completed}

\* one background operation at most, every control disabled while it lasts
BusyWhileInFlight ==
    /\ Cardinality(InFlightTasks) <= 1
    /\ InFlightTasks # {} =>
          /\ win.busy
          /\ \A c \in Controls : win.controls[c] = "disabled"
    /\ InFlightTasks = {} =>
          /\ ~win.busy
          /\ \A c \in Controls : win.controls[c] # "disabled"
          /\ win.queue = << >>
    /\ \A i \in win.completed : win.tasks[i].pc \in {"returned", "raised"}

\* C37: at most one background operation is in flight at any time: from the
\* start of a task until its completion callback has run the window is busy
\* and every control is disabled; the completion callback of a task that
\* returned or raised does run, and it clears the busy state and enables
\* the controls.
C37_OneTaskInFlight ==
    /\ [] BusyWhileInFlight
    /\ \A i \in 1 .. MaxClicks :
          (Len(win.tasks) >= i /\ win.tasks[i].pc \in {"returned", "raised"})
              ~> (i \in win.completed)
    /\ [][win'.completed # win.completed =>
              /\ ~win'.busy
              /\ \A c \in Controls : win'.controls[c] # "disabled"]_vars

\* a sync is in flight after a reprocess raised and its completion callback
\* enabled the controls again
C37_Witness ==
    /\ Len(win.tasks) = 2
    /\ win.tasks[1] = [op |-> "reprocess", pc |-> "raised"]
    /\ win.tasks[2] = [op |-> "sync", pc |-> "running"]
    /\ win.completed = {1}
    /\ win.busy
    /\ win.controls["update"] = "disabled"

(***************************************************************************)
(* SpecCli: the sync-yampi command of main.run, for a client of the        *)
(* configuration whose platform is yampi.  The command validates, writes   *)
(* the client row and calls sync_yampi_orders; requests counts the calls   *)
(* of the network the command has made.                                    *)
(***************************************************************************)
\* _normalize_date: "" for "", the ISO text for DD/MM/YYYY or YYYY-MM-DD,
\* ValueError for anything else
normalize_date(arg) ==
    IF arg.fields = << >> THEN [raised |-> FALSE, value |-> EmptyText]
    ELSE IF arg.sep = "/" /\ ValidDate(<< arg.fields[3], arg.fields[2], arg.fields[1] >>)
    THEN [raised |-> FALSE, value |-> << arg.fields[3], arg.fields[2], arg.fields[1] >>]
    ELSE IF arg.sep = "-" /\ ValidDate(arg.fields)
    THEN [raised |-> FALSE, value |-> arg.fields]
    ELSE [raised |-> TRUE, value |-> EmptyText]

\* _resolve_sync_window: the normalized dates, ValueError for a date that is
\* none or for start > end
resolve_sync_window(start_arg, end_arg) ==
    LET start == normalize_date(start_arg)
        end == normalize_date(end_arg)
    IN  IF start.raised \/ end.raised
        THEN [raised |-> TRUE, start |-> EmptyText, end |-> EmptyText]
        ELSE IF Truthy(start.value) /\ Truthy(end.value) /\ TextGT(start.value, end.value)
        THEN [raised |-> TRUE, start |-> EmptyText, end |-> EmptyText]
        ELSE [raised |-> FALSE, start |-> start.value, end |-> end.value]

\* a test that takes any credential field for a credential
has_yampi_auth_any_field(cfg) == cfg.token \/ cfg.user_token \/ cfg.user_secret_key

\* _has_yampi_auth
has_yampi_auth(cfg) == cfg.token \/ (cfg.user_token /\ cfg.user_secret_key)

\* the dates typed by the user
DateArgs_cli ==
    {NoDateArg,
     [sep |-> "-", fields |-> << 2024, 1, 31 >>],
     [sep |-> "-", fields |-> << 2024, 2, 1 >>],
     [sep |-> "/", fields |-> << 31, 1, 2024 >>],
     [sep |-> "/", fields |-> << 1, 2, 2024 >>],
     [sep |-> "/", fields |-> << 2024, 2, 1 >>]}

InitCli ==
    /\ orders \in {{}, SeedRows}
    /\ sync_state \in {[c \in Clients |-> NoRow],
                        [c \in Clients |-> [cursor |-> << 2 >>, updated_at |-> 0]]}
    /\ clients \in StoreClients
    /\ upstream = {}
    /\ run = RunIdle
    /\ hist = HistIdle
    /\ clock = 1
    /\ db_call = DbIdle
    /\ mr = MrIdle
    /\ rq = RqIdle
    /\ tc = TcIdle
    /\ win = WinIdle
    /\ fo = FoIdle
    /\ nz = NzIdle
    /\ sq = SqIdle
    /\ gui = GuiIdle
    /\ \E t \in BOOLEAN : \E u \in BOOLEAN : \E k \in BOOLEAN :
       \E sa \in DateArgs_cli : \E ea \in DateArgs_cli :
          cli = [CliIdle EXCEPT !.pc = "start",
                                !.cfg = [token |-> t, user_token |-> u,
                                         user_secret_key |-> k],
                                !.start_arg = sa, !.end_arg = ea,
                                !.orders0 = orders, !.clients0 = clients,
                                !.ss0 = sync_state]

CliOthers ==
    << orders, upstream, run, hist, clock, db_call, mr, rq, tc, fo, nz, sq, gui, win >>

\* main.py 360-365: the credential test and the window
CliValidate ==
    /\ cli.pc = "start"
    /\ LET w == resolve_sync_window(cli.start_arg, cli.end_arg)
       IN  cli' = IF ~has_yampi_auth(cli.cfg)
                  THEN [cli EXCEPT !.pc = "rejected", !.error = "credentials"]
                  ELSE IF w.raised
                  THEN [cli EXCEPT !.pc = "rejected", !.error = "window"]
                  ELSE [cli EXCEPT !.pc = "validated", !.start_date = w.start,
                                   !.end_date = w.end]
    /\ UNCHANGED << clients, sync_state >>
    /\ UNCHANGED CliOthers

\* main.py 366-375: upsert_client and its commit
CliUpsertClient ==
    /\ cli.pc = "validated"
    /\ clients' = upsert_client(clients, cli.client_id)
    /\ cli' = [cli EXCEPT !.pc = "sync"]
    /\ UNCHANGED sync_state
    /\ UNCHANGED CliOthers

\* main.py 377-390: sync_yampi_orders returns; every page it fetched was
\* empty, and a run without dates has written the cursor it loaded
CliSyncReturns ==
    \E synced \in SyncReturns :
        /\ cli.pc = "sync"
        /\ cli' = [cli EXCEPT !.pc = "done", !.requests = @ + 1, !.synced = synced]
        /\ sync_state' =
              IF WritesCursor(cli.start_date, cli.end_date)
              THEN set_cursor(sync_state, cli.client_id,
                              SyncCursor(sync_state, cli.client_id, cli.start_date,
                                         cli.end_date),
                              clock)
              ELSE sync_state
        /\ UNCHANGED clients
        /\ UNCHANGED CliOthers

\* main.py 377-388: sync_yampi_orders raises, and the command with it
CliSyncRaises ==
    /\ cli.pc = "sync"
    /\ cli' = [cli EXCEPT !.pc = "failed", !.requests = @ + 1, !.error = "sync"]
    /\ UNCHANGED << clients, sync_state >>
    /\ UNCHANGED CliOthers

NextCli ==
    \/ CliValidate
    \/ CliUpsertClient
    \/ CliSyncReturns
    \/ CliSyncRaises

SpecCli == InitCli /\ [][NextCli]_vars

\* the date the argument stands for, EmptyText when it is empty or no date
DateOfArg(arg) ==
    IF arg.fields = << >> THEN EmptyText
    ELSE IF arg.sep = "/" THEN << arg.fields[3], arg.fields[2], arg.fields[1] >>
    ELSE arg.fields

\* the client has neither a bearer token nor a complete user-token pair
NoCredential(cfg) == ~cfg.token /\ ~(cfg.user_token /\ cfg.user_secret_key)

\* both dates are given and the start date is later than the end date
StartAfterEnd ==
    /\ ValidDate(DateOfArg(cli.start_arg)) /\ ValidDate(DateOfArg(cli.end_arg))
    /\ DateOfArg(cli.start_arg) # DateOfArg(cli.end_arg)
    /\ DateLE(DateOfArg(cli.end_arg), DateOfArg(cli.start_arg))

\* C26: a sync requested for a client with neither a bearer token nor a
\* complete user-token + secret pair, or with a start date later than the end
\* date, ends rejected with an error, and at no point of it has a network
\* request been made or a row of the store been written.
C26_InvalidSyncRejected ==
    (NoCredential(cli.cfg) \/ StartAfterEnd) =>
        /\ cli.pc \in {"start", "rejected"}
        /\ cli.pc = "rejected" => cli.error \in {"credentials", "window"}
        /\ cli.requests = 0
        /\ clients = cli.clients0
        /\ sync_state = cli.ss0
        /\ orders = cli.orders0

\* a command with a bearer token was rejected for its window, 01/02/2024 to
\* 31/01/2024, with no client row written
C26_Witness ==
    /\ cli.pc = "rejected"
    /\ cli.error = "window"
    /\ cli.cfg.token
    /\ cli.start_arg = [sep |-> "/", fields |-> << 1, 2, 2024 >>]
    /\ cli.end_arg = [sep |-> "/", fields |-> << 31, 1, 2024 >>]
    /\ clients["c1"] = NoClient
    /\ cli.requests = 0

(***************************************************************************)
(* SpecRequest: YampiClient.__init__ and YampiClient._request.             *)
(* cfg tells which of token, user_token and user_secret_key are non-empty. *)
(* An HTTP attempt is recorded by the credential set it carries: "user"    *)
(* (User-Token and User-Secret-Key), "bearer" (Authorization) or "none".   *)
(* A transport failure has status 0; failures lists the status of every    *)
(* attempt of the call that failed (transport failure or status >= 400).   *)
(* prev_fallback_ok records, for the properties, that the call before       *)
(* returned the answer of its fallback attempt.                            *)
(***************************************************************************)
\* logical requests made with one client in one behaviour
MaxCalls == 2

\* a retryable set that also holds 404
RetryableStatusCodes_with_404 == {404, 429, 500, 502, 503, 504}

\* RETRYABLE_STATUS_CODES
RetryableStatusCodes == {429, 500, 502, 503, 504}

\* the statuses the server answers with
Statuses == {200, 204, 401, 404, 429, 500}

\* lines 33-45: _primary_auth_headers
PrimaryAuth(cfg) ==
    IF cfg.user_token /\ cfg.user_secret_key THEN "user"
    ELSE IF cfg.token THEN "bearer"
    ELSE "none"

\* a constructor that never sets the fallback headers
FallbackAuth_unset(cfg) == "none"

\* lines 31, 36-43: _fallback_auth_headers ("none": the empty dict)
FallbackAuth(cfg) ==
    IF cfg.user_token /\ cfg.user_secret_key /\ cfg.token THEN "bearer" ELSE "none"

\* line 29: the headers of the session
SessionHeaders == {"Accept"}

\* lines 30, 36-40, 44-45: the keys of _primary_auth_headers
PrimaryAuthHeaders(cfg) ==
    IF cfg.user_token /\ cfg.user_secret_key THEN {"User-Token", "User-Secret-Key"}
    ELSE IF cfg.token THEN {"Authorization"}
    ELSE {}

\* lines 31, 41-43: the keys of _fallback_auth_headers
FallbackAuthHeaders(cfg) ==
    IF cfg.user_token /\ cfg.user_secret_key /\ cfg.token THEN {"Authorization"} ELSE {}

\* lines 61-62: headers = dict(self.session.headers); headers.update(primary)
PrimaryHeaders(cfg) == SessionHeaders \cup PrimaryAuthHeaders(cfg)

\* fallback headers laid over the headers of the failed attempt
FallbackHeaders_over_primary(cfg) == PrimaryHeaders(cfg) \cup FallbackAuthHeaders(cfg)

\* lines 85-86: fallback_headers = dict(self.session.headers); update(fallback)
FallbackHeaders(cfg) == SessionHeaders \cup FallbackAuthHeaders(cfg)

\* an error test that lets client errors through
IsErrorStatus_server_only(st) == st >= 500

\* line 98: response.status_code >= 400
IsErrorStatus(st) == st >= 400

\* lines 100-103: the HTTPError raised for a response: its message holds the
\* status code and response.url, the URL the answered request was sent to
HttpError(st, url) == [status |-> st, url |-> url]

\* the URLs requested: fetch_orders asks for {base}/{alias}/orders,
\* test_connection for {base}/{alias}/orders/filters
OrdersUrl == "orders"

FiltersUrl == "orders/filters"

\* a budget that allows one retry more
RetriesLeft_one_more(attempt) == attempt <= MaxRetries

\* lines 71 and 78: attempt < self.max_retries (line 71 tests the negation)
RetriesLeft(attempt) == attempt < MaxRetries

\* an except clause that catches transport failures only
Caught_transport_only(outcome) == outcome = "transport"

\* line 50: except requests.RequestException, the class of a transport
\* failure and the base class of requests.HTTPError
Caught(outcome) == outcome \in {"transport", "http"}

\* 2**attempt
RECURSIVE Pow2(_)
Pow2(n) == IF n = 0 THEN 1 ELSE 2 * Pow2(n - 1)

\* a backoff that grows by one base delay per retry
wait_seconds_linear(attempt) == attempt + 1

\* lines 73 and 79: wait_seconds = self.retry_backoff_seconds * (2**attempt),
\* counted in units of retry_backoff_seconds
wait_seconds(attempt) == Pow2(attempt)

InitRequest ==
    /\ orders = {}
    /\ sync_state = [c \in Clients |-> NoRow]
    /\ upstream = {}
    /\ run = RunIdle
    /\ hist = HistIdle
    /\ clock = 0
    /\ db_call = DbIdle
    /\ mr = MrIdle
    /\ tc = TcIdle
    /\ win = WinIdle
    /\ clients = NoClients
    /\ nz = NzIdle
    /\ sq = SqIdle
    /\ gui = GuiIdle
    /\ cli = CliIdle
    /\ fo = FoIdle
    /\ \E t \in BOOLEAN : \E u \in BOOLEAN : \E k \in BOOLEAN :
          rq = [RqIdle EXCEPT !.cfg = [token |-> t, user_token |-> u,
                                       user_secret_key |-> k]]

RqOthers == << orders, sync_state, upstream, run, hist, clock, db_call, mr, tc, fo, rest >>

\* line 58-69: _request is called; the first attempt is sent with the primary headers
RequestCall ==
    /\ rq.pc \in {"idle", "returned", "raised"}
    /\ tc.pc # "waiting"
    /\ rq.calls < MaxCalls
    /\ rq' = [RqIdle EXCEPT !.pc = "try", !.cfg = rq.cfg, !.calls = rq.calls + 1,
                            !.url = OrdersUrl,
                            !.sent = << PrimaryAuth(rq.cfg) >>,
                            !.headers = << PrimaryHeaders(rq.cfg) >>,
                            !.prev_fallback_ok =
                                (rq.pc = "returned" /\ rq.fallback_status # 0)]
    /\ tc' = TcIdle
    /\ UNCHANGED << orders, sync_state, upstream, run, hist, clock, db_call, mr, fo, rest >>

\* line 49: test_connection calls _request
TestConnectionCall ==
    /\ rq.pc \in {"idle", "returned", "raised"}
    /\ tc.pc # "waiting"
    /\ rq.calls < MaxCalls
    /\ rq' = [RqIdle EXCEPT !.pc = "try", !.cfg = rq.cfg, !.calls = rq.calls + 1,
                            !.url = FiltersUrl,
                            !.sent = << PrimaryAuth(rq.cfg) >>,
                            !.headers = << PrimaryHeaders(rq.cfg) >>,
                            !.prev_fallback_ok =
                                (rq.pc = "returned" /\ rq.fallback_status # 0)]
    /\ tc' = [TcIdle EXCEPT !.pc = "waiting"]
    /\ UNCHANGED << orders, sync_state, upstream, run, hist, clock, db_call, mr, fo, rest >>

\* lines 50-55: _request has returned or raised; test_connection returns
\* (ok, message), or the exception leaves it when the except clause misses it
TestConnectionReturn ==
    /\ tc.pc = "waiting"
    /\ rq.pc \in {"returned", "raised"}
    /\ tc' = IF rq.pc = "raised"
             THEN IF Caught(rq.outcome)
                  THEN [pc |-> "returned", ok |-> FALSE, message |-> "exception"]
                  ELSE [pc |-> "raised", ok |-> FALSE, message |-> "none"]
             ELSE IF rq.status = 200
                  THEN [pc |-> "returned", ok |-> TRUE, message |-> "Conexao com API OK"]
                  ELSE [pc |-> "returned", ok |-> FALSE, message |-> "Erro"]
    /\ UNCHANGED << orders, sync_state, upstream, run, hist, clock, db_call, mr, rq, fo, rest >>

\* lines 70-76: the attempt raises requests.RequestException
PrimaryTransportError ==
    /\ rq.pc = "try"
    /\ rq' = IF ~RetriesLeft(rq.attempt)
             THEN [rq EXCEPT !.pc = "raised", !.outcome = "transport",
                             !.failures = Append(@, 0),
                             !.primary_status = 0, !.status = 0]
             ELSE [rq EXCEPT !.sleeps = Append(@, wait_seconds(rq.attempt)),
                             !.attempt = @ + 1,
                             !.failures = Append(@, 0),
                             !.primary_status = 0,
                             !.sent = Append(@, PrimaryAuth(rq.cfg)),
                             !.headers = Append(@, PrimaryHeaders(rq.cfg))]
    /\ UNCHANGED RqOthers

\* lines 78-105: the attempt is answered with status st
PrimaryResponse ==
    \E st \in Statuses :
        /\ rq.pc = "try"
        /\ rq' = IF st \in RetryableStatusCodes /\ RetriesLeft(rq.attempt)
                 THEN [rq EXCEPT !.sleeps = Append(@, wait_seconds(rq.attempt)),
                                 !.attempt = @ + 1,
                                 !.failures = Append(@, st),
                                 !.primary_status = st,
                                 !.sent = Append(@, PrimaryAuth(rq.cfg)),
                                 !.headers = Append(@, PrimaryHeaders(rq.cfg))]
                 ELSE IF st = 401 /\ FallbackAuth(rq.cfg) # "none"
                 THEN [rq EXCEPT !.pc = "fallback",
                                 !.failures = Append(@, st),
                                 !.primary_status = st,
                                 !.sent = Append(@, FallbackAuth(rq.cfg)),
                                 !.headers = Append(@, FallbackHeaders(rq.cfg))]
                 ELSE IF IsErrorStatus(st)
                 THEN [rq EXCEPT !.pc = "raised", !.outcome = "http",
                                 !.failures = Append(@, st),
                                 !.primary_status = st, !.status = st,
                                 !.error = HttpError(st, rq.url)]
                 ELSE [rq EXCEPT !.pc = "returned", !.outcome = "response",
                                 !.primary_status = st, !.status = st]
        /\ UNCHANGED RqOthers

\* lines 87-93: the fallback attempt raises; it is sent outside the try block,
\* so the exception leaves _request at once
FallbackTransportError ==
    /\ rq.pc = "fallback"
    /\ rq' = [rq EXCEPT !.pc = "raised", !.outcome = "transport", !.status = 0,
                        !.failures = Append(@, 0)]
    /\ UNCHANGED RqOthers

\* a fallback attempt whose error answer sends the call back into the loop
FallbackResponse_retried ==
    \E st \in Statuses :
        /\ rq.pc = "fallback"
        /\ rq' = IF st < 400
                 THEN [rq EXCEPT !.pc = "returned", !.outcome = "response",
                                 !.fallback_status = st, !.status = st]
                 ELSE [rq EXCEPT !.pc = "try",
                                 !.failures = Append(@, st),
                                 !.fallback_status = st,
                                 !.sent = Append(@, PrimaryAuth(rq.cfg)),
                                 !.headers = Append(@, PrimaryHeaders(rq.cfg))]
        /\ UNCHANGED RqOthers

\* lines 94-105: the fallback attempt is answered with status st: returned
\* at line 95 when st < 400, otherwise it becomes `response` and meets the
\* test of line 98
FallbackResponse ==
    \E st \in Statuses :
        /\ rq.pc = "fallback"
        /\ rq' = IF st < 400 \/ ~IsErrorStatus(st)
                 THEN [rq EXCEPT !.pc = "returned", !.outcome = "response",
                                 !.fallback_status = st, !.status = st]
                 ELSE [rq EXCEPT !.pc = "raised", !.outcome = "http",
                                 !.failures = Append(@, st),
                                 !.fallback_status = st, !.status = st,
                                 !.error = HttpError(st, rq.url)]
        /\ UNCHANGED RqOthers

NextRequestCall ==
    \/ RequestCall
    \/ TestConnectionCall
    \/ PrimaryTransportError
    \/ PrimaryResponse
    \/ FallbackTransportError
    \/ FallbackResponse
    \/ TestConnectionReturn

SpecRequest == InitRequest /\ [][NextRequestCall]_vars

\* every HTTP attempt is sent with timeout=self.timeout and every backoff
\* sleep is finite: an attempt in flight is answered or fails
SpecRequestFair ==
    /\ InitRequest
    /\ [][NextRequestCall]_vars
    /\ WF_vars(PrimaryTransportError \/ PrimaryResponse)
    /\ WF_vars(FallbackTransportError \/ FallbackResponse)

\* both credential kinds are configured
BothKinds(cfg) == cfg.token /\ cfg.user_token /\ cfg.user_secret_key

\* the number of attempts of the call sent with the bearer header
BearerAttempts == Cardinality({i \in 1 .. Len(rq.sent) : rq.sent[i] = "bearer"})

\* C10: with both credential kinds configured, a 401 answer to a user-token
\* attempt is followed, inside the same call, by exactly one attempt with the
\* bearer header, and when that attempt is answered with a status below 400
\* the call returns that response and raises nothing.
C10_FallbackAfter401 ==
    BothKinds(rq.cfg) =>
        /\ rq.primary_status = 401 =>
              /\ Len(rq.sent) >= 2
              /\ rq.sent[Len(rq.sent) - 1] = "user"
              /\ rq.sent[Len(rq.sent)] = "bearer"
              /\ BearerAttempts = 1
              /\ rq.pc \in {"fallback", "returned", "raised"}
        /\ (rq.fallback_status # 0 /\ rq.fallback_status < 400) =>
              /\ rq.pc = "returned"
              /\ rq.outcome = "response"
              /\ rq.status = rq.fallback_status

\* after one retry the user-token attempt got 401 and the bearer attempt 200
C10_Witness ==
    /\ BothKinds(rq.cfg)
    /\ rq.pc = "returned"
    /\ rq.sent = << "user", "user", "bearer" >>
    /\ rq.primary_status = 401
    /\ rq.fallback_status = 200
    /\ rq.status = 200

\* the attempts of the call sent with the primary credentials
PrimaryAttempts ==
    Cardinality({i \in 1 .. Len(rq.sent) : rq.sent[i] = PrimaryAuth(rq.cfg)})

\* a logical request is under way
InFlight == rq.pc \in {"try", "fallback"}

\* the logical request has returned a response or raised
Ended == rq.pc \in {"returned", "raised"}

\* the retry budget of one logical request: one counter for both kinds of
\* failure, and the last failure surfaced when it is used up
RetryBudget ==
    /\ Len(rq.sleeps) <= MaxRetries
    /\ PrimaryAttempts <= MaxRetries + 1
    /\ rq.pc # "idle" => PrimaryAttempts = Len(rq.sleeps) + 1
    /\ Len(rq.failures) >= Len(rq.sleeps)
    /\ \A i \in 1 .. Len(rq.sleeps) :
          rq.failures[i] \in {0, 429, 500, 502, 503, 504}
    /\ (Ended /\ rq.primary_status = 0) =>
          /\ Len(rq.sleeps) = MaxRetries
          /\ rq.pc = "raised" /\ rq.outcome = "transport"
    /\ (Ended /\ rq.primary_status \in {429, 500, 502, 503, 504}) =>
          /\ Len(rq.sleeps) = MaxRetries
          /\ rq.pc = "raised" /\ rq.outcome = "http"
          /\ rq.status = rq.primary_status

\* C11: within one logical request transport failures and retryable statuses
\* (429, 500, 502, 503, 504) share one retry counter: at most max_retries
\* retries, so at most max_retries + 1 attempts with the primary credentials;
\* when the budget is used up the last failure is surfaced (the transport
\* exception, or an HTTP error for the retryable status), and every call
\* terminates.
C11_SharedRetryBudget == [] RetryBudget /\ (InFlight ~> Ended)

\* the budget was used up by failures of both kinds and the last retryable
\* status was raised as an HTTP error
C11_Witness ==
    /\ rq.pc = "raised"
    /\ rq.outcome = "http"
    /\ rq.status = 500
    /\ Len(rq.sent) = MaxRetries + 1
    /\ Len(rq.sleeps) = MaxRetries
    /\ \E i \in 1 .. MaxRetries : rq.failures[i] = 0
    /\ \E i \in 1 .. MaxRetries : rq.failures[i] = 429

\* C12: a transport failure or a retryable status on any HTTP attempt of a
\* logical request, the attempt sent with the fallback credentials included,
\* reaches the caller only when the retry budget has been used up.
C12_FailuresAbsorbed ==
    (rq.pc = "raised" /\ rq.status \in {0, 429, 500, 502, 503, 504}) =>
        Len(rq.sleeps) = MaxRetries

\* an error status outside the retryable set
TerminalStatus(st) == st >= 400 /\ st \notin {429, 500, 502, 503, 504}

\* C13: a response with a non-retryable error status ends the request: a 401
\* with no fallback configured, any other 4xx/5xx outside the retryable set,
\* or an error status answered to the fallback attempt raises an HTTP error
\* in that very step, with no further attempt and no backoff sleep after it.
C13_NonRetryableIsTerminal ==
    [][/\ (/\ rq.pc = "try"
           /\ TerminalStatus(rq'.primary_status)
           /\ (rq'.primary_status # 401 \/ ~BothKinds(rq.cfg))) =>
              /\ rq'.pc = "raised" /\ rq'.outcome = "http"
              /\ rq'.status = rq'.primary_status
              /\ rq'.sent = rq.sent /\ rq'.sleeps = rq.sleeps
       /\ (rq.pc = "fallback" /\ rq'.fallback_status >= 400) =>
              /\ rq'.pc = "raised" /\ rq'.outcome = "http"
              /\ rq'.status = rq'.fallback_status
              /\ rq'.sent = rq.sent /\ rq'.sleeps = rq.sleeps
       /\ (rq.pc = "raised" /\ rq'.calls = rq.calls) => rq' = rq]_vars

\* after one retry a 401 was answered to the user-token attempt and a 404 to
\* the bearer attempt, and the call raised
C13_Witness ==
    /\ BothKinds(rq.cfg)
    /\ rq.pc = "raised"
    /\ rq.failures = << 500, 401, 404 >>
    /\ rq.sent = << "user", "user", "bearer" >>
    /\ rq.sleeps = << 1 >>
    /\ rq.status = 404

\* C14: test_connection never lets a request or HTTP failure out: whatever
\* the underlying request did, it returns (ok, message), and ok is true
\* exactly when the request returned a response with status 200.
C14_TestConnectionTotal ==
    /\ tc.pc # "raised"
    /\ tc.pc = "returned" =>
          /\ Ended
          /\ tc.ok <=> (rq.pc = "returned" /\ rq.status = 200)
          /\ tc.message # "none"

\* test_connection returned ok = false after the retries were used up on
\* transport failures and retryable statuses
C14_Witness ==
    /\ tc.pc = "returned"
    /\ ~tc.ok
    /\ rq.pc = "raised"
    /\ Len(rq.sleeps) = MaxRetries
    /\ rq.failures[MaxRetries + 1] = 0
    /\ \E i \in 1 .. MaxRetries : rq.failures[i] = 429

\* the header sets of the two credential modes
UserPairHeaders == {"User-Token", "User-Secret-Key"}

BearerHeaders == {"Authorization"}

\* the attempt that followed the last backoff sleep was followed by one more
FallbackSent == Len(rq.headers) = Len(rq.sleeps) + 2

\* C27: no HTTP attempt carries the Authorization header together with a
\* User-Token or User-Secret-Key header; the attempts of the retry loop carry
\* the user-token pair whenever user token and secret are both configured and
\* otherwise the bearer header of the configured token; an attempt with a
\* second credential set (the bearer header, after a 401) is made only when
\* both kinds are fully configured, and then after every 401 that ends the
\* retry loop.
C27_CredentialModesExclusive ==
    /\ \A i \in 1 .. Len(rq.headers) :
          ~(/\ BearerHeaders \cap rq.headers[i] # {}
            /\ UserPairHeaders \cap rq.headers[i] # {})
    /\ \A i \in 1 .. Len(rq.headers) :
          (i <= Len(rq.sleeps) + 1) =>
              IF rq.cfg.user_token /\ rq.cfg.user_secret_key
              THEN rq.headers[i] \cap (UserPairHeaders \cup BearerHeaders) = UserPairHeaders
              ELSE IF rq.cfg.token
              THEN rq.headers[i] \cap (UserPairHeaders \cup BearerHeaders) = BearerHeaders
              ELSE rq.headers[i] \cap (UserPairHeaders \cup BearerHeaders) = {}
    /\ Len(rq.headers) <= Len(rq.sleeps) + 2
    /\ FallbackSent =>
          /\ BothKinds(rq.cfg)
          /\ rq.headers[Len(rq.headers)] \cap (UserPairHeaders \cup BearerHeaders)
                = BearerHeaders
    /\ (rq.primary_status = 401 /\ rq.pc # "try") => (FallbackSent <=> BothKinds(rq.cfg))

\* with both kinds configured a call ended after a retry with the user pair
\* and one attempt with the bearer header alone
C27_Witness ==
    /\ BothKinds(rq.cfg)
    /\ Ended
    /\ rq.headers = << {"Accept", "User-Token", "User-Secret-Key"},
                       {"Accept", "User-Token", "User-Secret-Key"},
                       {"Accept", "Authorization"} >>

\* the status of the last response of the call
LastAnswer == IF rq.fallback_status # 0 THEN rq.fallback_status ELSE rq.primary_status

\* C30: a response returned by _request has a status below 400, whether it
\* answered the first attempt, a retry or the fallback attempt; a call whose
\* last response has status 400 or above raises an HTTP error that carries
\* that status and the URL of the request.
C30_ReturnedBelow400 ==
    /\ rq.pc = "returned" =>
          /\ rq.outcome = "response"
          /\ rq.status < 400
          /\ rq.status = LastAnswer
    /\ (Ended /\ rq.outcome # "transport" /\ LastAnswer >= 400) =>
          /\ rq.pc = "raised"
          /\ rq.outcome = "http"
          /\ rq.error = [status |-> LastAnswer, url |-> rq.url]
          /\ rq.url \in {"orders", "orders/filters"}

\* after a retry and a 401, the fallback attempt of a test_connection request
\* was answered 404 and the call raised the error of that response
C30_Witness ==
    /\ rq.pc = "raised"
    /\ rq.sleeps # << >>
    /\ rq.primary_status = 401
    /\ rq.fallback_status = 404
    /\ rq.error = [status |-> 404, url |-> "orders/filters"]

\* C31: the wait before the k-th retry of a logical request (k = 0, 1, ...)
\* is the base delay times 2^k, where k counts every earlier retry of the
\* request, whether a transport failure or a retryable status caused it; each
\* wait is twice the one before, and every wait lies between two attempts:
\* none before the first attempt and none after the last.
C31_BackoffDoubles ==
    /\ \A i \in 1 .. Len(rq.sleeps) : rq.sleeps[i] = 2 ^ (i - 1)
    /\ \A i \in 2 .. Len(rq.sleeps) : rq.sleeps[i] = 2 * rq.sleeps[i - 1]
    /\ rq.attempt = Len(rq.sleeps)
    /\ rq.pc = "idle" => rq.sleeps = << >>
    /\ rq.pc # "idle" => Len(rq.sleeps) + 1 = PrimaryAttempts
    /\ \A i \in 1 .. Len(rq.sleeps) :
          /\ rq.failures[i] \in {0} \cup RetryableStatusCodes
          /\ rq.sent[i] = PrimaryAuth(rq.cfg)
          /\ rq.sent[i + 1] = PrimaryAuth(rq.cfg)

\* a call that ended after four waits of 1, 2, 4 and 8 base delays, caused
\* by transport failures and by retryable statuses alternately
C31_Witness ==
    /\ Ended
    /\ rq.sleeps = << 1, 2, 4, 8 >>
    /\ rq.failures[1] = 0 /\ rq.failures[2] = 429
    /\ rq.failures[3] = 0 /\ rq.failures[4] = 500

\* C36: within one logical request at most one attempt is made with the
\* fallback credentials; it is made only in the step in which a primary
\* attempt is answered 401; the step after it ends the request (a response
\* returned or an error raised) with no further attempt; and the next
\* logical request starts with the primary credentials whatever the request
\* before did, a request that returned its fallback answer included.
C36_FallbackOnceAndFinal ==
    [][/\ Len(rq'.sent) <= Len(rq'.sleeps) + 2
       /\ (rq'.calls = rq.calls /\ rq'.sent # rq.sent) =>
              /\ rq.pc = "try"
              /\ Len(rq'.sent) = Len(rq.sent) + 1
              /\ IF rq'.pc = "fallback"
                 THEN /\ rq'.primary_status = 401
                      /\ FallbackAuth(rq.cfg) # "none"
                      /\ rq'.sent[Len(rq'.sent)] = FallbackAuth(rq.cfg)
                      /\ rq'.headers[Len(rq'.sent)] = FallbackHeaders(rq.cfg)
                      /\ rq'.sleeps = rq.sleeps
                 ELSE /\ rq'.pc = "try"
                      /\ rq'.sent[Len(rq'.sent)] = PrimaryAuth(rq.cfg)
                      /\ rq'.headers[Len(rq'.sent)] = PrimaryHeaders(rq.cfg)
                      /\ Len(rq'.sleeps) = Len(rq.sleeps) + 1
       /\ (rq.pc = "fallback" /\ rq' # rq) =>
              /\ rq'.pc \in {"returned", "raised"}
              /\ rq'.sent = rq.sent
              /\ rq'.calls = rq.calls
       /\ rq'.calls # rq.calls =>
              /\ rq'.calls = rq.calls + 1
              /\ rq'.cfg = rq.cfg
              /\ rq'.pc = "try"
              /\ rq'.sent = << PrimaryAuth(rq.cfg) >>
              /\ rq'.headers = << PrimaryHeaders(rq.cfg) >>
              /\ rq'.prev_fallback_ok <=> (rq.pc = "returned" /\ rq.fallback_status # 0)]_vars

\* the request after one that returned its fallback answer was sent with the
\* user pair again, answered 401, and returned its own fallback answer
C36_Witness ==
    /\ BothKinds(rq.cfg)
    /\ rq.calls = 2
    /\ rq.prev_fallback_ok
    /\ rq.pc = "returned"
    /\ rq.sent = << "user", "bearer" >>
    /\ rq.primary_status = 401
    /\ rq.fallback_status = 200

(***************************************************************************)
(* SpecFetch: calls of YampiClient.fetch_orders.  The arguments of a call  *)
(* are drawn at the start; the call builds its query parameters, sends the *)
(* logical request and resolves the body of the response.                  *)
(***************************************************************************)
\* an argument that was left out (None), passed empty, or passed with a value
SinceArgs == {None, EmptyText, << 2 >>}

DateArgs == {None, EmptyText} \cup WindowDates

InitFetch ==
    /\ orders = {}
    /\ sync_state = [c \in Clients |-> NoRow]
    /\ upstream = {}
    /\ run = RunIdle
    /\ hist = HistIdle
    /\ clock = 0
    /\ db_call = DbIdle
    /\ mr = MrIdle
    /\ rq = RqIdle
    /\ tc = TcIdle
    /\ win = WinIdle
    /\ clients = NoClients
    /\ nz = NzIdle
    /\ sq = SqIdle
    /\ gui = GuiIdle
    /\ cli = CliIdle
    /\ \E pg \in 1 .. 2 : \E sc \in ScrollIds : \E us \in SinceArgs :
       \E sd \in DateArgs : \E ed \in DateArgs :
          fo = [FoIdle EXCEPT !.pc = "input", !.page = pg, !.scroll_id = sc,
                              !.updated_since = us, !.start_date = sd,
                              !.end_date = ed]

FoOthers == << orders, sync_state, upstream, run, hist, clock, db_call, mr, rq, tc, rest >>

\* lines 117-131: the parameters are built and _request is called
FetchOrdersCall ==
    /\ fo.pc = "input"
    /\ fo' = [fo EXCEPT !.pc = "request",
                        !.params = FetchParams(fo.page, PageSize, fo.scroll_id,
                                               fo.updated_since, fo.start_date,
                                               fo.end_date)]
    /\ UNCHANGED FoOthers

\* line 131: _request raises; nothing in fetch_orders catches it
FetchOrdersRequestRaises ==
    /\ fo.pc = "request"
    /\ fo' = [fo EXCEPT !.pc = "raised", !.result = Raised("RequestException")]
    /\ UNCHANGED FoOthers

\* lines 131-154: _request returns a response; its body is resolved
FetchOrdersResponse ==
    \E body \in Bodies :
        /\ fo.pc = "request"
        /\ fo' = [fo EXCEPT !.pc = IF FetchResolve(body).raised
                                   THEN "raised" ELSE "returned",
                            !.body = body,
                            !.result = FetchResolve(body)]
        /\ UNCHANGED FoOthers

NextFetch ==
    \/ FetchOrdersCall
    \/ FetchOrdersRequestRaises
    \/ FetchOrdersResponse

SpecFetch == InitFetch /\ [][NextFetch]_vars

\* an argument was given a value
Given(x) == x # None /\ x # EmptyText

\* C15: whatever (since, start date, end date) fetch_orders is called with,
\* the request carries at most one date filter: the since filter exactly when
\* a since value is given and neither date is; the created_at range
\* start|end, the missing bound taken from the other, when either date is
\* given; neither filter when nothing is given.
C15_OneDateFilter ==
    fo.pc \in {"request", "returned", "raised"} =>
        LET p == fo.params
        IN  /\ ~(p.updated_at_min # None /\ p.date # None)
            /\ (p.updated_at_min # None) <=>
                  (Given(fo.updated_since) /\ ~Given(fo.start_date) /\ ~Given(fo.end_date))
            /\ (p.updated_at_min # None) => p.updated_at_min = fo.updated_since
            /\ (Given(fo.start_date) \/ Given(fo.end_date)) =>
                  p.date = << (IF Given(fo.start_date) THEN fo.start_date ELSE fo.end_date),
                              (IF Given(fo.end_date) THEN fo.end_date ELSE fo.start_date) >>
            /\ (~Given(fo.start_date) /\ ~Given(fo.end_date)) => p.date = None

\* a call with a since value and an end date only has sent its request
C15_Witness ==
    /\ fo.pc = "returned"
    /\ Given(fo.updated_since)
    /\ ~Given(fo.start_date)
    /\ Given(fo.end_date)
    /\ fo.params.date = << fo.end_date, fo.end_date >>
    /\ fo.params.updated_at_min = None

\* the body of the response has been looked at
Resolved == fo.pc \in {"returned", "raised"} /\ fo.result.error # "RequestException"

\* the list the claim names for an object: the first of data, orders,
\* results that holds a list, else the empty list
NamedList(b) ==
    IF b.data.kind = "list" THEN b.data.items
    ELSE IF b.orders.kind = "list" THEN b.orders.items
    ELSE IF b.results.kind = "list" THEN b.results.items
    ELSE << >>

\* C17: fetch_orders finds the record list whatever the shape of the payload:
\* a bare list L gives L, no scroll id and total pages 1; an object gives the
\* list under the first of data, orders, results that holds a list, and the
\* empty list when none does.  (An object whose paging metadata makes the
\* call raise before the list is looked for is the matter of C19.)
C17_RecordListByShape ==
    Resolved =>
        /\ fo.body.kind = "list" =>
              /\ fo.pc = "returned"
              /\ fo.result.raw_orders = fo.body.items
              /\ fo.result.next_scroll_id = None
              /\ fo.result.total_pages = 1
        /\ (fo.body.kind = "object" /\ fo.body.meta = Absent) => fo.pc = "returned"
        /\ (fo.body.kind = "object" /\ fo.pc = "returned") =>
              fo.result.raw_orders = NamedList(fo.body)

\* an object whose data is no list and whose orders and results both hold
\* lists has given the list under orders
C17_Witness ==
    /\ fo.pc = "returned"
    /\ fo.body.kind = "object"
    /\ fo.body.data = JNull
    /\ fo.body.orders = JList(ListB)
    /\ fo.body.results = JList(ListC)
    /\ fo.result.raw_orders = ListB

\* C18: a response whose body is no record container (not JSON, or JSON that
\* is neither a list nor an object) counts as zero records: fetch_orders
\* returns the empty list and raises nothing.
C18_UnusableBodyIsEmpty ==
    (Resolved /\ fo.body.kind \in {"invalid", "null", "number", "string"}) =>
        /\ fo.pc = "returned"
        /\ fo.result.raw_orders = << >>

\* the value under meta.pagination.total_pages of an object (Absent when
\* there is none)
PagesValue(b) ==
    IF b.meta.kind = "object"
    THEN IF b.meta.pagination.kind = "object"
         THEN b.meta.pagination.total_pages
         ELSE Absent
    ELSE Absent

\* C19: for an object payload total pages is the integer under
\* meta.pagination.total_pages and 1 when that value is absent or cannot be
\* read as an integer; the paging metadata never makes fetch_orders raise.
C19_TotalPagesDefaults ==
    (Resolved /\ fo.body.kind = "object") =>
        /\ fo.pc = "returned"
        /\ (PagesValue(fo.body).kind = "number" /\ PagesValue(fo.body).value >= 1) =>
              fo.result.total_pages = PagesValue(fo.body).value
        /\ (PagesValue(fo.body).kind = "string" /\ IsDigits(PagesValue(fo.body).value)) =>
              fo.result.total_pages = ParseInt(PagesValue(fo.body).value)
        /\ (\/ PagesValue(fo.body).kind \in {"absent", "null", "list"}
            \/ (PagesValue(fo.body).kind = "string" /\ ~IsDigits(PagesValue(fo.body).value))) =>
              fo.result.total_pages = 1

====
